---- MODULE Spec2Model ----
(***************************************************************************)
(* Model of the indicator and signal scoring engine of trading-core:       *)
(* MarketAnalyzer (analyzer.py), TradingCore (main.py) and DataAggregator  *)
(* (data_aggregator.py).                                                   *)
(*                                                                         *)
(* Numbers.  The code computes in IEEE doubles through pandas.  The model  *)
(* computes with exact rationals over integer prices and volumes, and     *)
(* keeps the three special outcomes of the float arithmetic that the code  *)
(* relies on: NaN (0/0, warm-up of a rolling window), +infinity (x/0 for   *)
(* x > 0) and pandas' NA marker.  Sequences are 1-based here, 0-based in   *)
(* the code: index i of the code is index i+1 of the model.                *)
(***************************************************************************)
EXTENDS Integers, Sequences, FiniteSets, TLC

VARIABLES
    \* --- calculate_rsi of both classes, run on one price series
    rpc,        \* "input" | "ready" | "done"
    rPrices,    \* the price series
    rPeriod,    \* the period argument
    rsiA,       \* result of MarketAnalyzer.calculate_rsi
    rsiT        \* result of TradingCore.calculate_rsi

VARIABLES
    \* --- MarketAnalyzer.analyze_with_strategy over one batch
    apc,          \* "idle" | "loop" | "done"
    market_data,  \* symbol -> data handed in for it
    parameters,   \* strategy['parameters']
    ai,           \* position of the for loop: next symbol to take
    signals,      \* the list being returned
    analyzed,     \* symbols whose loop body ran to its end
    latest_eval   \* what the last loop body computed (observation only)

VARIABLES
    \* --- TradingCore.apply_algorithm over one batch
    cpc,               \* "idle" | "loop" | "done"
    core_data,         \* the market_data argument, by position of the asset
    current_strategy,  \* self.current_strategy
    ci,                \* position of the for loop
    core_signals,      \* the list being returned
    core_seen          \* per asset taken: what its try block ended with

VARIABLES
    \* --- DataAggregator.calculate_trend on one price series
    tpc,      \* "input" | "ready" | "done"
    tPrices,  \* the prices argument
    trend     \* the returned dict

VARIABLES
    \* --- DataAggregator.calculate_market_sentiment on one frame
    spc,       \* "input" | "ready" | "done"
    sdf,       \* the df argument
    sentiment  \* the returned label

VARIABLES
    \* --- DataAggregator.calculate_volatility on one price series
    vpc,         \* "input" | "ready" | "done"
    vPrices,     \* the prices argument
    fill_method, \* what Series.pct_change() defaults to in the installed pandas
    volatility   \* the returned float

VARIABLES
    \* --- DataFetcher: fetch_all calls against the wall clock
    fnow,          \* datetime.now(), in seconds
    ticks,         \* how often the clock has been advanced
    cache,         \* self.cache: asset -> entry (timestamp, data) or NoEntry
    fetch_result,  \* the market_data the last fetch_all returned
    fetch_log,     \* what the last fetch_all did (observation only)
    \* --- TradingCore.check_and_execute_trades and the signal_requests table
    supabase,          \* self.supabase: "unset" before __init__, "client", "none"
    xpc,               \* "idle", "loop" (inside the for), "done"
    trade_strategy,    \* self.current_strategy of the cycle
    trade_signals,     \* the signals argument of the cycle
    pending_requests,  \* response.data of the select
    xi,                \* position in pending_requests
    requests,          \* table signal_requests: id -> status, user_id
    placed,            \* id -> trades placed on the platform for the request
    trade_log,         \* what the current cycle did (observation only)
    cycles,            \* cycles of the main loop so far
    \* --- StrategyManager and the strategy table of the store
    store,             \* name -> is_active, updated_at
    strategies,        \* self.strategies
    last_update,       \* self.last_update
    strat_log,         \* what the last call did (observation only)
    edits              \* store edits so far

rsiVars == <<rpc, rPrices, rPeriod, rsiA, rsiT>>
anaVars == <<apc, market_data, parameters, ai, signals, analyzed, latest_eval>>
coreVars == <<cpc, core_data, current_strategy, ci, core_signals, core_seen>>
vars == <<rpc, rPrices, rPeriod, rsiA, rsiT,
          apc, market_data, parameters, ai, signals, analyzed, latest_eval,
          cpc, core_data, current_strategy, ci, core_signals, core_seen,
          tpc, tPrices, trend,
          spc, sdf, sentiment,
          vpc, vPrices, fill_method, volatility,
          fnow, ticks, cache, fetch_result, fetch_log,
          supabase, xpc, trade_strategy, trade_signals, pending_requests, xi,
          requests, placed, trade_log, cycles,
          store, strategies, last_update, strat_log, edits>>
fetchVars == <<fnow, ticks, cache, fetch_result, fetch_log>>
tradeVars == <<supabase, xpc, trade_strategy, trade_signals, pending_requests,
               xi, requests, placed, trade_log, cycles>>
stratVars == <<store, strategies, last_update, strat_log, edits>>
svcVars == <<fnow, ticks, cache, fetch_result, fetch_log,
             supabase, xpc, trade_strategy, trade_signals, pending_requests, xi,
             requests, placed, trade_log, cycles,
             store, strategies, last_update, strat_log, edits>>
trendVars == <<tpc, tPrices, trend>>
sentVars == <<spc, sdf, sentiment>>
volVars == <<vpc, vPrices, fill_method, volatility>>
aggVars == <<tpc, tPrices, trend, spc, sdf, sentiment,
             vpc, vPrices, fill_method, volatility>>

----------------------------------------------------------------------------
(* Bounds of the model *)
MaxLen == 5          \* longest series given to calculate_rsi
MaxPrice == 3        \* prices of those series are 1..MaxPrice
MaxTrendLen == 4     \* longest series given to calculate_trend
MaxMinConditions == 3  \* min_conditions of a strategy ranges over 1..MaxMinConditions
MaxLongLen == 21     \* longest of the long series given to calculate_trend
MaxCycles == 3       \* cycles of the main loop
MaxRequests == 2     \* rows of the signal_requests table
MaxEdits == 3        \* edits of the strategy table
MaxTicks == 3        \* how often the clock moves between fetch_all calls
MaxVolLen == 4       \* longest series given to calculate_volatility
MaxSentLen == 11     \* longest frame given to calculate_market_sentiment

----------------------------------------------------------------------------
(* Float values: a rational n/d (d > 0, reduced), NaN, +infinity, pandas NA *)

RECURSIVE GCD(_, _)
GCD(a, b) == IF b = 0 THEN a ELSE GCD(b, a % b)

Abs(x) == IF x < 0 THEN -x ELSE x

NaN == [k |-> "nan", n |-> 0, d |-> 1]
NA == [k |-> "na", n |-> 0, d |-> 1]
Inf == [k |-> "inf", n |-> 1, d |-> 1]

Num(n, d) ==
    LET g == GCD(Abs(n), d)
    IN  [k |-> "num", n |-> n \div g, d |-> d \div g]

Int2Val(x) == Num(x, 1)

\* pd.isna: true of NaN and of NA
isna(v) == v.k \in {"nan", "na"}

Lt_nan_as_zero(a, b) ==
    LET z(v) == IF v.k \in {"nan", "na"} THEN [k |-> "num", n |-> 0, d |-> 1] ELSE v
    IN  CASE z(a).k = "inf" -> FALSE
          [] z(b).k = "inf" -> TRUE
          [] OTHER -> z(a).n * z(b).d < z(b).n * z(a).d

\* a < b and a > b on floats: false as soon as one operand is NaN
Lt(a, b) ==
    CASE isna(a) \/ isna(b) -> FALSE
      [] a.k = "inf" -> FALSE
      [] b.k = "inf" -> TRUE
      [] OTHER -> a.n * b.d < b.n * a.d

Gt(a, b) == Lt(b, a)

\* a / b for a >= 0, b >= 0: x/0 is +inf for x > 0 and NaN for x = 0;
\* anything combined with NA is NA
VDiv(a, b) ==
    CASE a.k = "na" \/ b.k = "na" -> NA
      [] a.k = "nan" \/ b.k = "nan" -> NaN
      [] a.k = "inf" /\ b.k = "inf" -> NaN
      [] a.k = "inf" -> Inf
      [] b.k = "inf" -> Num(0, 1)
      [] b.n = 0 /\ a.n = 0 -> NaN
      [] b.n = 0 -> Inf
      [] OTHER -> Num(a.n * b.d, a.d * b.n)

VAdd(a, b) ==
    CASE a.k = "na" \/ b.k = "na" -> NA
      [] a.k = "nan" \/ b.k = "nan" -> NaN
      [] a.k = "inf" \/ b.k = "inf" -> Inf
      [] OTHER -> Num(a.n * b.d + b.n * a.d, a.d * b.d)

VMul(a, b) ==
    CASE a.k = "na" \/ b.k = "na" -> NA
      [] a.k = "nan" \/ b.k = "nan" -> NaN
      [] a.k = "inf" \/ b.k = "inf" -> Inf
      [] OTHER -> Num(a.n * b.n, a.d * b.d)

\* a - b with b finite (the only use is 100 - x)
VSub(a, b) ==
    CASE a.k = "na" \/ b.k = "na" -> NA
      [] a.k = "nan" \/ b.k = "nan" -> NaN
      [] a.k = "inf" -> Inf
      [] OTHER -> Num(a.n * b.d - b.n * a.d, a.d * b.d)

\* all sequences over S of length 0..n
RECURSIVE SeqsUpTo(_, _)
SeqsUpTo(S, n) ==
    IF n = 0 THEN {<<>>}
    ELSE LET shorter == SeqsUpTo(S, n - 1)
         IN  shorter \cup
             {Append(s, x) : s \in {t \in shorter : Len(t) = n - 1}, x \in S}

----------------------------------------------------------------------------
(* pandas building blocks *)

\* Series.diff(): NaN at the first index, then s[i] - s[i-1]
diff(s) ==
    [i \in 1..Len(s) |-> IF i = 1 THEN NaN ELSE Int2Val(s[i] - s[i - 1])]

\* delta.where(delta > 0, 0): keeps the positive deltas, everything else
\* (the NaN of the first index included) becomes 0
where_pos(delta) ==
    [i \in 1..Len(delta) |->
        IF Gt(delta[i], Int2Val(0)) THEN delta[i].n ELSE 0]

\* -delta.where(delta < 0, 0): magnitude of the negative deltas, else 0
neg_where_neg(delta) ==
    [i \in 1..Len(delta) |->
        IF Lt(delta[i], Int2Val(0)) THEN -(delta[i].n) ELSE 0]

\* s[lo] + ... + s[hi], summed by halves to keep the recursion shallow
RECURSIVE WindowSum(_, _, _)
WindowSum(s, lo, hi) ==
    IF lo > hi THEN 0
    ELSE IF lo = hi THEN s[lo]
    ELSE LET mid == (lo + hi) \div 2
         IN  WindowSum(s, lo, mid) + WindowSum(s, mid + 1, hi)

\* Series.rolling(window=w).mean() of an integer series without NaN, at
\* index i: NaN while fewer than w observations are in the window
\* rolling(window=w, min_periods=1).mean(): the mean of what is there
rolling_mean_at_partial(s, w, i) ==
    IF i < w THEN Num(WindowSum(s, 1, i), i) ELSE Num(WindowSum(s, i - w + 1, i), w)

rolling_mean_at(s, w, i) ==
    IF i < w THEN NaN ELSE Num(WindowSum(s, i - w + 1, i), w)

rolling_mean(s, w) == [i \in 1..Len(s) |-> rolling_mean_at(s, w, i)]

\* Series.replace(0, pd.NA)
replace_zero_NA(s) ==
    [i \in 1..Len(s) |->
        IF s[i].k = "num" /\ s[i].n = 0 THEN NA ELSE s[i]]

----------------------------------------------------------------------------
(* The momentum oscillator *)

\* the ratio taken the other way round, rs = loss / gain
rsi_value_swapped(gain, loss) ==
    LET rs == VDiv(loss, gain)
    IN  VSub(Int2Val(100), VDiv(Int2Val(100), VAdd(Int2Val(1), rs)))

\* rs = gain / loss; rsi = 100 - (100 / (1 + rs))
rsi_value(gain, loss) ==
    LET rs == VDiv(gain, loss)
    IN  VSub(Int2Val(100), VDiv(Int2Val(100), VAdd(Int2Val(1), rs)))

rsi_from(gain, loss) ==
    [i \in 1..Len(gain) |-> rsi_value(gain[i], loss[i])]

\* MarketAnalyzer.calculate_rsi
MarketAnalyzer_calculate_rsi(prices, period) ==
    LET delta == diff(prices)
        gain == rolling_mean(where_pos(delta), period)
        loss == rolling_mean(neg_where_neg(delta), period)
    IN  rsi_from(gain, loss)

\* the value of MarketAnalyzer.calculate_rsi at index i alone
MarketAnalyzer_calculate_rsi_at(prices, period, i) ==
    LET delta == diff(prices)
        gain == rolling_mean_at(where_pos(delta), period, i)
        loss == rolling_mean_at(neg_where_neg(delta), period, i)
    IN  rsi_value(gain, loss)

\* TradingCore.calculate_rsi: the empty series when the input is empty or
\* shorter than period + 1, and a zero loss replaced by NA before dividing
TradingCore_calculate_rsi(prices, period) ==
    IF Len(prices) = 0 \/ Len(prices) < period + 1
    THEN <<>>
    ELSE LET delta == diff(prices)
             gain == rolling_mean(where_pos(delta), period)
             loss == rolling_mean(neg_where_neg(delta), period)
         IN  rsi_from(gain, replace_zero_NA(loss))

\* the trailing-window averages, as the claims speak of them
avg_loss(prices, period) == rolling_mean(neg_where_neg(diff(prices)), period)
avg_gain(prices, period) == rolling_mean(where_pos(diff(prices)), period)

----------------------------------------------------------------------------
(* Input of MarketAnalyzer: market_data[symbol] is what DataFetcher hands   *)
(* over, a list of candle dicts.  A datum of the model is                   *)
(*   kind "empty": a falsy value (None, [], {}), skipped by line 31;       *)
(*   kind "bad":   a value pd.DataFrame() raises on (line 35);             *)
(*   kind "rows":  n candles with the keys `cols`.                         *)
(* The candles of a "rows" datum: the close moves by `slope` per bar and   *)
(* the last bar adds `kick`; the volume is BaseVolume except for the last  *)
(* bar; the last bar opens `od` above its close.                           *)

RequiredCols == {"open", "high", "low", "close", "volume"}

BaseVolume == 10

\* last close of a datum: 100 (300 for the long series, to keep every
\* price positive)
LastClose(f) == IF f.n >= 200 THEN 300 ELSE 100

Close(f) ==
    [i \in 1..f.n |->
        IF i = f.n THEN LastClose(f)
        ELSE LastClose(f) - f.kick - f.slope * (f.n - i)]

Volume(f) == [i \in 1..f.n |-> IF i = f.n THEN f.lastVol ELSE BaseVolume]

OpenLast(f) == LastClose(f) + f.od

\* strategy parameters: params.get(name, default) with the defaults of the
\* code; volume_threshold 1.5 is kept as the fraction 3/2
DefaultParameters ==
    [rsi_period |-> 14, rsi_oversold |-> 30, rsi_overbought |-> 70,
     bb_period |-> 20, bb_std |-> 2,
     volume_threshold |-> Num(3, 2), min_conditions |-> 2,
     tp_percent |-> 3, sl_percent |-> 2]

----------------------------------------------------------------------------
(* apply_technical_indicators, on the latest row (the only row that        *)
(* generate_signals reads, df.iloc[-1])                                    *)

RECURSIVE WindowSumSq(_, _, _)
WindowSumSq(s, lo, hi) ==
    IF lo > hi THEN 0
    ELSE IF lo = hi THEN s[lo] * s[lo]
    ELSE LET mid == (lo + hi) \div 2
         IN  WindowSumSq(s, lo, mid) + WindowSumSq(s, mid + 1, hi)

\* calculate_bollinger_bands at index i.  The bands are mean -/+ std * k with
\* the rolling sample standard deviation; the square root is kept symbolic:
\* a band is the window sum s, the window sum of squares q, the period p
\* and the multiplier m, and stands for s/p -/+ m * sqrt((p*q - s*s)/(p*(p-1)))
NoBand == [k |-> "nan", s |-> 0, q |-> 0, p |-> 1, m |-> 0]

calculate_bollinger_bands_at(prices, period, std, i) ==
    IF i < period \/ period < 2 THEN NoBand
    ELSE [k |-> "band",
          s |-> WindowSum(prices, i - period + 1, i),
          q |-> WindowSumSq(prices, i - period + 1, i),
          p |-> period, m |-> std]

\* c < lower band  and  c > upper band, for an integer c and m >= 0
BelowLowerBand(c, b) ==
    /\ b.k = "band"
    /\ LET D == b.s - b.p * c
           V == b.p * b.q - b.s * b.s
       IN  D > 0 /\ b.m * b.m * V * b.p < D * D * (b.p - 1)

AboveUpperBand(c, b) ==
    /\ b.k = "band"
    /\ LET D == b.p * c - b.s
           V == b.p * b.q - b.s * b.s
       IN  D > 0 /\ b.m * b.m * V * b.p < D * D * (b.p - 1)

\* calculate_macd at the latest row.  The three exponential averages
\* (ewm(adjust=False)) are defined at every index of a close series and
\* their float values are an input of the model (f.macd, with the signal
\* line at 0); the histogram is computed from them as in line 244.
calculate_macd_latest(f) ==
    LET macd == Int2Val(f.macd)
        macd_signal == Int2Val(0)
    IN  <<macd, macd_signal, VSub(macd, macd_signal)>>

\* the raw columns of the latest row
RawLatest(f) ==
    [c \in f.cols |->
        CASE c = "close" -> Int2Val(LastClose(f))
          [] c = "open" -> Int2Val(OpenLast(f))
          [] c = "volume" -> Int2Val(f.lastVol)
          [] OTHER -> Int2Val(LastClose(f))]

\* lines 59-76: the columns computed from df['close']
CloseIndicators(f, params) ==
    LET prices == Close(f)
        m == calculate_macd_latest(f)
        lower == calculate_bollinger_bands_at(prices, params.bb_period,
                                              params.bb_std, f.n)
    IN  [rsi |-> MarketAnalyzer_calculate_rsi_at(prices, params.rsi_period, f.n),
         macd |-> m[1], macd_signal |-> m[2], macd_hist |-> m[3],
         bb_upper |-> lower,
         bb_middle |-> rolling_mean_at(prices, params.bb_period, f.n),
         bb_lower |-> lower]

\* lines 79-85: the columns computed after df['volume'] was read
VolumeIndicators(f) ==
    LET prices == Close(f)
        volume == Volume(f)
        volume_sma == rolling_mean_at(volume, 20, f.n)
    IN  [volume_sma |-> volume_sma,
         volume_ratio |-> VDiv(Int2Val(volume[f.n]), volume_sma),
         sma_20 |-> rolling_mean_at(prices, 20, f.n),
         sma_50 |-> rolling_mean_at(prices, 50, f.n),
         sma_200 |-> rolling_mean_at(prices, 200, f.n)]

\* apply_technical_indicators: the try block stops at the first missing
\* column (KeyError on df['close'], line 61, or df['volume'], line 79) and
\* the frame is returned with the columns added so far
apply_technical_indicators(f, params) ==
    IF "close" \notin f.cols THEN RawLatest(f)
    ELSE IF "volume" \notin f.cols
         THEN CloseIndicators(f, params) @@ RawLatest(f)
         ELSE VolumeIndicators(f) @@ CloseIndicators(f, params) @@ RawLatest(f)

----------------------------------------------------------------------------
(* check_buy_conditions / check_sell_conditions                            *)
(* data is the latest row: a function from the column names it has.  A     *)
(* check that reads a missing column raises KeyError, which ends the try   *)
(* block: the conditions appended before it stay.                          *)

Has(data, cs) == cs \subseteq DOMAIN data
Get(data, c) == IF c \in DOMAIN data THEN data[c] ELSE NaN

\* weights added by `confidence += ...`
W_rsi == 25
W_macd == 20
W_bb == 15
W_volume == 10
W_ma_low == W_rsi
W_ma == 30

\* `x and y` reads the columns of y only when x is true
BuyChecks(data, params) ==
    LET macd1 == Gt(Get(data, "macd"), Get(data, "macd_signal"))
        ma1 == Gt(Get(data, "sma_20"), Get(data, "sma_50"))
    IN
    << [name |-> "rsi_oversold", weight |-> W_rsi,
        raises |-> ~Has(data, {"rsi"}),
        fires |-> Lt(Get(data, "rsi"), Int2Val(params.rsi_oversold))],
       [name |-> "macd_bullish", weight |-> W_macd,
        raises |-> \/ ~Has(data, {"macd", "macd_signal"})
                   \/ macd1 /\ ~Has(data, {"macd_hist"}),
        fires |-> macd1 /\ Gt(Get(data, "macd_hist"), Int2Val(0))],
       [name |-> "bb_oversold", weight |-> W_bb,
        raises |-> ~Has(data, {"close", "bb_lower"}),
        fires |-> /\ Has(data, {"close", "bb_lower"})
                  /\ data["close"].k = "num"
                  /\ BelowLowerBand(data["close"].n, data["bb_lower"])],
       [name |-> "high_volume", weight |-> W_volume,
        raises |-> ~Has(data, {"volume_ratio"}),
        fires |-> Gt(Get(data, "volume_ratio"), params.volume_threshold)],
       [name |-> "golden_cross", weight |-> W_ma,
        raises |-> \/ ~Has(data, {"sma_20", "sma_50"})
                   \/ ma1 /\ ~Has(data, {"sma_200"}),
        fires |-> ma1 /\ Gt(Get(data, "sma_50"), Get(data, "sma_200"))] >>

\* the bearish checks with the volume check taken over unchanged from the
\* bullish side
SellChecks_any_bar(data, params) ==
    LET macd1 == Lt(Get(data, "macd"), Get(data, "macd_signal"))
        vol1 == Gt(Get(data, "volume_ratio"), params.volume_threshold)
        ma1 == Lt(Get(data, "sma_20"), Get(data, "sma_50"))
    IN
    << [name |-> "rsi_overbought", weight |-> W_rsi,
        raises |-> ~Has(data, {"rsi"}),
        fires |-> Gt(Get(data, "rsi"), Int2Val(params.rsi_overbought))],
       [name |-> "macd_bearish", weight |-> W_macd,
        raises |-> \/ ~Has(data, {"macd", "macd_signal"})
                   \/ macd1 /\ ~Has(data, {"macd_hist"}),
        fires |-> macd1 /\ Lt(Get(data, "macd_hist"), Int2Val(0))],
       [name |-> "bb_overbought", weight |-> W_bb,
        raises |-> ~Has(data, {"close", "bb_upper"}),
        fires |-> /\ Has(data, {"close", "bb_upper"})
                  /\ data["close"].k = "num"
                  /\ AboveUpperBand(data["close"].n, data["bb_upper"])],
       [name |-> "high_volume_down", weight |-> W_volume,
        raises |-> ~Has(data, {"volume_ratio"}),
        fires |-> vol1],
       [name |-> "death_cross", weight |-> W_ma,
        raises |-> \/ ~Has(data, {"sma_20", "sma_50"})
                   \/ ma1 /\ ~Has(data, {"sma_200"}),
        fires |-> ma1 /\ Lt(Get(data, "sma_50"), Get(data, "sma_200"))] >>

SellChecks(data, params) ==
    LET macd1 == Lt(Get(data, "macd"), Get(data, "macd_signal"))
        vol1 == Gt(Get(data, "volume_ratio"), params.volume_threshold)
        ma1 == Lt(Get(data, "sma_20"), Get(data, "sma_50"))
    IN
    << [name |-> "rsi_overbought", weight |-> W_rsi,
        raises |-> ~Has(data, {"rsi"}),
        fires |-> Gt(Get(data, "rsi"), Int2Val(params.rsi_overbought))],
       [name |-> "macd_bearish", weight |-> W_macd,
        raises |-> \/ ~Has(data, {"macd", "macd_signal"})
                   \/ macd1 /\ ~Has(data, {"macd_hist"}),
        fires |-> macd1 /\ Lt(Get(data, "macd_hist"), Int2Val(0))],
       [name |-> "bb_overbought", weight |-> W_bb,
        raises |-> ~Has(data, {"close", "bb_upper"}),
        fires |-> /\ Has(data, {"close", "bb_upper"})
                  /\ data["close"].k = "num"
                  /\ AboveUpperBand(data["close"].n, data["bb_upper"])],
       [name |-> "high_volume_down", weight |-> W_volume,
        raises |-> \/ ~Has(data, {"volume_ratio"})
                   \/ vol1 /\ ~Has(data, {"close", "open"}),
        fires |-> vol1 /\ Lt(Get(data, "close"), Get(data, "open"))],
       [name |-> "death_cross", weight |-> W_ma,
        raises |-> \/ ~Has(data, {"sma_20", "sma_50"})
                   \/ ma1 /\ ~Has(data, {"sma_200"}),
        fires |-> ma1 /\ Lt(Get(data, "sma_50"), Get(data, "sma_200"))] >>

\* the try block with `confidence = w` written for `confidence += w`
RECURSIVE RunChecks_overwrite(_, _, _)
RunChecks_overwrite(checks, i, acc) ==
    IF i > Len(checks) THEN acc
    ELSE IF checks[i].raises THEN [acc EXCEPT !.raised = TRUE]
    ELSE RunChecks_overwrite(checks, i + 1,
            IF checks[i].fires
            THEN [acc EXCEPT !.conditions = Append(@, checks[i].name),
                             !.confidence = checks[i].weight,
                             !.evaluated = @ + 1]
            ELSE [acc EXCEPT !.evaluated = @ + 1])

\* the body of the try block: the checks in order, up to the first that
\* raises; evaluated counts the checks whose `if` was decided
RECURSIVE RunChecks(_, _, _)
RunChecks(checks, i, acc) ==
    IF i > Len(checks) THEN acc
    ELSE IF checks[i].raises THEN [acc EXCEPT !.raised = TRUE]
    ELSE RunChecks(checks, i + 1,
            IF checks[i].fires
            THEN [acc EXCEPT !.conditions = Append(@, checks[i].name),
                             !.confidence = @ + checks[i].weight,
                             !.evaluated = @ + 1]
            ELSE [acc EXCEPT !.evaluated = @ + 1])

NoChecks == [conditions |-> <<>>, confidence |-> 0, evaluated |-> 0,
             raised |-> FALSE]

Min(a, b) == IF a < b THEN a ELSE b

count_gate_strict(conditions, params) == Len(conditions) > params.min_conditions

\* 'trigger': len(conditions) >= params.get('min_conditions', 2)
count_gate(conditions, params) == Len(conditions) >= params.min_conditions

ConditionResult(r, params) ==
    [trigger |-> count_gate(r.conditions, params),
     conditions |-> r.conditions,
     confidence |-> Min(r.confidence, 100),
     evaluated |-> r.evaluated,
     raised |-> r.raised]

check_buy_conditions(data, params) ==
    ConditionResult(RunChecks(BuyChecks(data, params), 1, NoChecks), params)

check_sell_conditions(data, params) ==
    ConditionResult(RunChecks(SellChecks(data, params), 1, NoChecks), params)

----------------------------------------------------------------------------
(* Target prices and generate_signals *)

Percent(x) == VDiv(Int2Val(x), Int2Val(100))

calculate_tp_price_same_side(entry_price, direction, params) ==
    VMul(entry_price, VAdd(Int2Val(1), Percent(params.tp_percent)))

calculate_tp_price(entry_price, direction, params) ==
    IF direction = "buy"
    THEN VMul(entry_price, VAdd(Int2Val(1), Percent(params.tp_percent)))
    ELSE VMul(entry_price, VSub(Int2Val(1), Percent(params.tp_percent)))

calculate_sl_price(entry_price, direction, params) ==
    IF direction = "buy"
    THEN VMul(entry_price, VSub(Int2Val(1), Percent(params.sl_percent)))
    ELSE VMul(entry_price, VAdd(Int2Val(1), Percent(params.sl_percent)))

MakeSignal(symbol, action, cond, latest, params) ==
    [symbol |-> symbol,
     action |-> action,
     direction |-> IF action = "buy" THEN "long" ELSE "short",
     confidence |-> cond.confidence,
     entry_price |-> latest["close"],
     tp_price |-> calculate_tp_price(latest["close"], action, params),
     sl_price |-> calculate_sl_price(latest["close"], action, params),
     conditions_met |-> cond.conditions]

generate_signals_first_only(latest, symbol, params) ==
    LET buy == check_buy_conditions(latest, params)
        sell == check_sell_conditions(latest, params)
    IN  IF "close" \notin DOMAIN latest THEN <<>>
        ELSE IF buy.trigger
             THEN <<MakeSignal(symbol, "buy", buy, latest, params)>>
             ELSE IF sell.trigger
                  THEN <<MakeSignal(symbol, "sell", sell, latest, params)>>
                  ELSE <<>>

\* generate_signals: building a signal reads latest['close']; a KeyError
\* there ends the try block and the signals built so far are returned
generate_signals(latest, symbol, params) ==
    LET buy == check_buy_conditions(latest, params)
        sell == check_sell_conditions(latest, params)
        hasClose == "close" \in DOMAIN latest
        afterBuy ==
            IF buy.trigger /\ hasClose
            THEN <<MakeSignal(symbol, "buy", buy, latest, params)>>
            ELSE <<>>
    IN  IF buy.trigger /\ ~hasClose THEN <<>>
        ELSE IF sell.trigger /\ hasClose
             THEN Append(afterBuy, MakeSignal(symbol, "sell", sell, latest, params))
             ELSE afterBuy

----------------------------------------------------------------------------
(* analyze_with_strategy: one try block around the whole for loop *)

Symbols == <<"BTC", "ETH">>

NoData == [kind |-> "empty", n |-> 0, cols |-> {}, slope |-> 0, kick |-> 0,
           lastVol |-> 0, od |-> 0, macd |-> 0]
BadData == [NoData EXCEPT !.kind = "bad"]

Rows(n, cols, slope, kick, lastVol, od, macd) ==
    [kind |-> "rows", n |-> n, cols |-> cols, slope |-> slope, kick |-> kick,
     lastVol |-> lastVol, od |-> od, macd |-> macd]

ReversalKick == 40

\* the data the model feeds in: a series too short for every rolling
\* window, series of 20 and of 200 candles with every required key (rising
\* or falling, with or without a reversal on the last bar, with or without
\* a volume spike on an up or a down bar), series of 20 candles that lack
\* one required key, and series of 100 candles, the most fetch_asset_data
\* asks an exchange for (long enough for sma_50, too short for sma_200)
FetchLimit == 100

DataSet ==
    {NoData, BadData}
    \cup {Rows(FetchLimit, RequiredCols, s, -ReversalKick * s * r, BaseVolume, -1, m) :
            s \in {-1, 1}, r \in {0, 1}, m \in {-1, 1}}
    \cup {Rows(3, RequiredCols, -1, 0, BaseVolume, -1, m) : m \in {-1, 1}}
    \cup {Rows(n, RequiredCols, s, -ReversalKick * s * r, v[1], v[2], m) :
            n \in {20, 200}, s \in {-1, 1}, r \in {0, 1},
            v \in {<<BaseVolume, -1>>, <<4 * BaseVolume, -1>>,
                   <<4 * BaseVolume, 1>>},
            m \in {-1, 1}}
    \cup {Rows(20, RequiredCols \ {c}, s, -ReversalKick * s * r, BaseVolume, -1, m) :
            c \in {"volume", "close", "open"}, s \in {-1, 1}, r \in {0, 1},
            m \in {-1, 1}}

ParameterSets ==
    {[DefaultParameters EXCEPT !.min_conditions = m] : m \in 1..MaxMinConditions}

\* apply_technical_indicators depends on the frame and the parameters only:
\* its results on the data of the model, computed once
IndicatorTable ==
    {<<f, ps, apply_technical_indicators(f, ps)>> :
        f \in {d \in DataSet : d.kind = "rows"}, ps \in ParameterSets}

LatestRow(f, ps) ==
    (CHOOSE t \in IndicatorTable : t[1] = f /\ t[2] = ps)[3]

NoEval ==
    [symbol |-> "", n |-> 0, cols |-> {}, latest |-> <<>>,
     buy |-> ConditionResult(NoChecks, DefaultParameters),
     sell |-> ConditionResult(NoChecks, DefaultParameters),
     out |-> <<>>]

AnaIdle ==
    /\ apc = "idle"
    /\ market_data = <<>>
    /\ parameters = DefaultParameters
    /\ ai = 1
    /\ signals = <<>>
    /\ analyzed = {}
    /\ latest_eval = NoEval

\* the call: signals = [], parameters = strategy.get('parameters', {})
analyze_with_strategy ==
    /\ apc = "idle" /\ cpc = "idle"
    /\ \E md \in [1..Len(Symbols) -> DataSet], ps \in ParameterSets :
          /\ market_data' = md
          /\ parameters' = ps
    /\ apc' = "loop"
    /\ ai' = 1
    /\ signals' = <<>>
    /\ analyzed' = {}
    /\ latest_eval' = NoEval
    /\ UNCHANGED <<rsiVars, coreVars, aggVars, svcVars>>

LoopAdvance ==
    /\ ai' = ai + 1
    /\ apc' = IF ai + 1 > Len(market_data) THEN "done" ELSE "loop"

\* `if not data: continue`
analyze_skip_empty ==
    /\ apc = "loop"
    /\ market_data[ai].kind = "empty"
    /\ LoopAdvance
    /\ UNCHANGED <<market_data, parameters, signals, analyzed, latest_eval>>
    /\ UNCHANGED <<rsiVars, coreVars, aggVars, svcVars>>

\* pd.DataFrame(data) raises: the except clause of line 51 is outside the
\* loop, so the loop is left and the signals collected so far are returned
analyze_raise ==
    /\ apc = "loop"
    /\ market_data[ai].kind = "bad"
    /\ apc' = "done"
    /\ UNCHANGED <<market_data, parameters, ai, signals, analyzed, latest_eval>>
    /\ UNCHANGED <<rsiVars, coreVars, aggVars, svcVars>>

\* the loop body on a frame: indicators, then signals
analyze_symbol ==
    /\ apc = "loop"
    /\ market_data[ai].kind = "rows"
    /\ LET f == market_data[ai]
           latest == LatestRow(f, parameters)
           asset_signals == generate_signals(latest, Symbols[ai], parameters)
       IN  /\ signals' = signals \o asset_signals
           /\ latest_eval' =
                 [symbol |-> Symbols[ai], n |-> f.n, cols |-> f.cols,
                  latest |-> latest,
                  buy |-> check_buy_conditions(latest, parameters),
                  sell |-> check_sell_conditions(latest, parameters),
                  out |-> asset_signals]
    /\ analyzed' = analyzed \cup {ai}
    /\ LoopAdvance
    /\ UNCHANGED <<market_data, parameters>>
    /\ UNCHANGED <<rsiVars, coreVars, aggVars, svcVars>>

----------------------------------------------------------------------------
(* TradingCore.apply_algorithm (main.py)                                   *)
(* market_data[asset] is a DataFrame with the yfinance columns, None, or   *)
(* (kind "bad") an object whose inspection raises inside the per-asset try *)

YfCols == {"Open", "High", "Low", "Close", "Volume"}

CoreAssets == <<"EURUSD=X", "GBPUSD=X">>

\* asset.replace('=X', '')
StripSuffix(asset) ==
    CASE asset = "EURUSD=X" -> "EURUSD"
      [] asset = "GBPUSD=X" -> "GBPUSD"
      [] OTHER -> asset

NormalKick == 13

\* frames of 3 and of 20 rows: flat, rising or falling closes, the last bar
\* continuing the move, reversing it moderately or reversing it sharply
CoreDataSet ==
    {NoData, BadData}
    \cup {Rows(n, YfCols, s, -k * s, BaseVolume, -1, 0) :
            n \in {3, 20}, s \in {-1, 0, 1}, k \in {0, NormalKick, ReversalKick}}
    \cup {Rows(20, YfCols \ {"Close"}, s, 0, BaseVolume, -1, 0) : s \in {-1, 1}}

NoStrategy == [name |-> "None"]

\* self.default_strategy, lines 85-95
default_strategy ==
    [name |-> "Default RSI Strategy", allow_trading |-> FALSE,
     rsi_period |-> 14, rsi_oversold |-> 30, rsi_overbought |-> 70,
     default_amount |-> 10, default_timeframe |-> 60]

\* strategies loaded from the store: trading allowed, and one with an
\* oscillator period longer than the 20-row minimum of apply_algorithm
StrategySet ==
    {NoStrategy, default_strategy,
     [default_strategy EXCEPT !.name = "Custom", !.allow_trading = TRUE],
     [default_strategy EXCEPT !.name = "Slow", !.rsi_period = 30]}

\* the per-asset try block, lines 334-368: "skip" stands for every
\* `continue`, otherwise the latest oscillator value
CoreLatestRsi(df, strategy) ==
    IF df.kind \in {"empty", "bad"} THEN [skip |-> TRUE, why |-> df.kind, value |-> NaN]
    ELSE IF df.n < 20 THEN [skip |-> TRUE, why |-> "short", value |-> NaN]
    ELSE IF "Close" \notin df.cols THEN [skip |-> TRUE, why |-> "column", value |-> NaN]
    ELSE LET rsi == TradingCore_calculate_rsi(Close(df), strategy.rsi_period)
         IN  IF Len(rsi) = 0 THEN [skip |-> TRUE, why |-> "norsi", value |-> NaN]
             ELSE IF isna(rsi[Len(rsi)])
                  THEN [skip |-> TRUE, why |-> "isna", value |-> rsi[Len(rsi)]]
                  ELSE [skip |-> FALSE, why |-> "", value |-> rsi[Len(rsi)]]

CoreRsiTable ==
    {<<df, st, CoreLatestRsi(df, st)>> :
        df \in CoreDataSet, st \in StrategySet \ {NoStrategy}}

CoreRsi(df, st) == (CHOOSE t \in CoreRsiTable : t[1] = df /\ t[2] = st)[3]

CoreSignal(asset, direction, current_rsi, strategy) ==
    [asset |-> StripSuffix(asset), direction |-> direction,
     amount |-> strategy.default_amount,
     timeframe |-> strategy.default_timeframe,
     indicator |-> "RSI", value |-> current_rsi, strategy |-> strategy.name]

\* a PUT for every value that is not below rsi_oversold
CoreDecide_put_otherwise(asset, current_rsi, strategy) ==
    IF Lt(current_rsi, Int2Val(strategy.rsi_oversold))
    THEN <<CoreSignal(asset, "CALL", current_rsi, strategy)>>
    ELSE <<CoreSignal(asset, "PUT", current_rsi, strategy)>>

\* lines 373-397
CoreDecide(asset, current_rsi, strategy) ==
    IF Lt(current_rsi, Int2Val(strategy.rsi_oversold))
    THEN <<CoreSignal(asset, "CALL", current_rsi, strategy)>>
    ELSE IF Gt(current_rsi, Int2Val(strategy.rsi_overbought))
         THEN <<CoreSignal(asset, "PUT", current_rsi, strategy)>>
         ELSE <<>>

CoreIdle ==
    /\ cpc = "idle"
    /\ core_data = <<>>
    /\ current_strategy = NoStrategy
    /\ ci = 1
    /\ core_signals = <<>>
    /\ core_seen = <<>>

\* the call: both early returns, or the start of the loop
apply_algorithm ==
    /\ cpc = "idle" /\ apc = "idle"
    /\ \E md \in {<<>>} \cup [1..Len(CoreAssets) -> CoreDataSet],
          st \in StrategySet :
          /\ core_data' = md
          /\ current_strategy' = st
          /\ cpc' = IF Len(md) = 0 \/ st = NoStrategy THEN "done" ELSE "loop"
    /\ ci' = 1
    /\ core_signals' = <<>>
    /\ core_seen' = <<>>
    /\ UNCHANGED <<rsiVars, anaVars, aggVars, svcVars>>

CoreAdvance ==
    /\ ci' = ci + 1
    /\ cpc' = IF ci + 1 > Len(core_data) THEN "done" ELSE "loop"

\* an iteration that ends in `continue`
apply_skip ==
    /\ cpc = "loop"
    /\ LET r == CoreRsi(core_data[ci], current_strategy)
       IN  /\ r.skip
           /\ core_seen' = Append(core_seen, r)
    /\ CoreAdvance
    /\ UNCHANGED <<core_data, current_strategy, core_signals>>
    /\ UNCHANGED <<rsiVars, anaVars, aggVars, svcVars>>

\* an iteration that reaches the comparison with the thresholds
apply_asset ==
    /\ cpc = "loop"
    /\ LET r == CoreRsi(core_data[ci], current_strategy)
       IN  /\ ~r.skip
           /\ core_seen' = Append(core_seen, r)
           /\ core_signals' =
                 core_signals \o CoreDecide(CoreAssets[ci], r.value, current_strategy)
    /\ CoreAdvance
    /\ UNCHANGED <<core_data, current_strategy>>
    /\ UNCHANGED <<rsiVars, anaVars, aggVars, svcVars>>

----------------------------------------------------------------------------
(* DataAggregator.calculate_trend (data_aggregator.py)                     *)
(* prices is a sequence of float values, NaN allowed                       *)

trend_direction_inclusive(change_percent) ==
    IF ~Lt(change_percent, Int2Val(1)) /\ ~isna(change_percent) THEN "up"
    ELSE IF ~Gt(change_percent, Int2Val(-1)) /\ ~isna(change_percent) THEN "down"
    ELSE "sideways"

\* lines 94-99
trend_direction(change_percent) ==
    IF Gt(change_percent, Int2Val(1)) THEN "up"
    ELSE IF Lt(change_percent, Int2Val(-1)) THEN "down"
    ELSE "sideways"

\* sum of f[i] over i in S
RECURSIVE SumOver(_, _)
SumOver(S, f) ==
    IF S = {} THEN 0
    ELSE LET i == CHOOSE j \in S : TRUE
         IN  f[i] + SumOver(S \ {i}, f)

\* lines 110-121: least-squares line through the (index, price) pairs at
\* the positions `valid`; r_squared = 1 - ss_res/ss_tot, which for the
\* fitted line is Sxy^2 / (Sxx * Syy), and 0 when ss_tot = 0.  The sums are
\* taken over the deviations from the mean, as the code takes them (here
\* times n, to stay in the integers).  Fewer than two points: 0.
r_squared(prices, valid) ==
    LET n == Cardinality(valid)
        sx == SumOver(valid, [i \in valid |-> i - 1])
        sy == SumOver(valid, [i \in valid |-> prices[i].n])
        dx == [i \in valid |-> n * (i - 1) - sx]
        dy == [i \in valid |-> n * prices[i].n - sy]
        Sxx == SumOver(valid, [i \in valid |-> dx[i] * dx[i]])
        Syy == SumOver(valid, [i \in valid |-> dy[i] * dy[i]])
        Sxy == SumOver(valid, [i \in valid |-> dx[i] * dy[i]])
    IN  IF n < 2 THEN Int2Val(0)
        ELSE IF Syy = 0 THEN Int2Val(0)
        ELSE VMul(Num(Sxy, Sxx), Num(Sxy, Syy))

\* lines 105-108: the positions left by the mask ~np.isnan(y)
not_nan(prices) == {i \in 1..Len(prices) : ~isna(prices[i])}

\* the fit quality left as a fraction, not multiplied by 100
trend_strength_fraction(prices) == r_squared(prices, not_nan(prices))

\* the fit taken over the series as it is, without the NaN mask: one NaN
\* makes every sum, and the strength, NaN
trend_strength_unmasked(prices) ==
    IF not_nan(prices) # 1..Len(prices) THEN NaN
    ELSE VMul(r_squared(prices, 1..Len(prices)), Int2Val(100))

\* lines 101-124: strength = abs(r_squared) * 100
trend_strength(prices) ==
    VMul(r_squared(prices, not_nan(prices)), Int2Val(100))

SidewaysTrend ==
    [direction |-> "sideways", strength |-> Int2Val(0),
     change_percent |-> Int2Val(0)]

calculate_trend(prices) ==
    IF Len(prices) < 2 THEN SidewaysTrend
    ELSE LET first_price == prices[1]
             last_price == prices[Len(prices)]
             change_percent ==
                 VMul(VDiv(VSub(last_price, first_price), first_price),
                      Int2Val(100))
         IN  [direction |-> trend_direction(change_percent),
              strength |-> trend_strength(prices),
              change_percent |-> change_percent]

\* prices around 100, where one unit is one percent, and NaN
TrendValues == {NaN} \cup {Int2Val(p) : p \in {98, 99, 100, 101, 102}}

\* long rising series: n prices from `first` in equal steps, the last one
\* lifted by `jump`
LongSeries(n, first, step, jump) ==
    [i \in 1..n |->
        Int2Val(first + step * (i - 1) + (IF i = n THEN jump ELSE 0))]

LongInputs ==
    {LongSeries(n, first, step, jump) :
        n \in 20..MaxLongLen, first \in {1, 100, 1900, 2200},
        step \in {1, 2}, jump \in {0, 30}}

TrendIdle ==
    /\ tpc = "input"
    /\ tPrices = <<>>
    /\ trend = SidewaysTrend

TrendInput ==
    /\ tpc = "input"
    /\ \E s \in SeqsUpTo(TrendValues, MaxTrendLen) \cup LongInputs :
          tPrices' = s
    /\ tpc' = "ready"
    /\ UNCHANGED <<trend, rsiVars, anaVars, coreVars, sentVars, volVars, svcVars>>

TrendCompute ==
    /\ tpc = "ready"
    /\ trend' = calculate_trend(tPrices)
    /\ tpc' = "done"
    /\ UNCHANGED <<tPrices, rsiVars, anaVars, coreVars, sentVars, volVars, svcVars>>

----------------------------------------------------------------------------
(* DataAggregator.calculate_market_sentiment (data_aggregator.py:141-206)  *)
(* df is a record: n rows, the set of its columns, and the Close, Open and *)
(* Volume columns as sequences of float values                            *)

OhlcvCols == {"Open", "High", "Low", "Close", "Volume"}

\* the value appended to scores for the volume trend, with a price that is
\* not rising left without a vote
volume_vote_up_only(trend_, volume_trend) ==
    IF volume_trend.direction = "up"
    THEN (IF trend_.direction = "up" THEN 1 ELSE 0)
    ELSE 0

\* lines 159-164
trend_vote(trend_) ==
    IF trend_.direction = "up" /\ Gt(trend_.strength, Int2Val(50)) THEN 1
    ELSE IF trend_.direction = "down" /\ Gt(trend_.strength, Int2Val(50))
         THEN -1
    ELSE 0

\* lines 169-173
volume_vote(trend_, volume_trend) ==
    IF volume_trend.direction = "up"
    THEN (IF trend_.direction = "up" THEN 1 ELSE -1)
    ELSE 0

\* lines 176-184: df.tail(5) and the two counters
tail(df, k) == {i \in 1..df.n : i > df.n - k}
bullish_candles(df) ==
    Cardinality({i \in tail(df, 5) : Gt(df.Close[i], df.Open[i])})
bearish_candles(df) ==
    Cardinality({i \in tail(df, 5) : Lt(df.Close[i], df.Open[i])})

\* lines 186-191
candle_vote(df) ==
    IF bullish_candles(df) > bearish_candles(df) THEN 1
    ELSE IF bearish_candles(df) > bullish_candles(df) THEN -1
    ELSE 0

\* lines 194-201
sentiment_label(total_score) ==
    IF total_score > 0 THEN "bullish"
    ELSE IF total_score < 0 THEN "bearish"
    ELSE "neutral"

\* the length guard written `len(df) <= 10`
calculate_market_sentiment_over_10(df) ==
    IF df.n = 0 \/ df.n <= 10 THEN "neutral"
    ELSE IF "Close" \notin df.cols THEN "neutral"
    ELSE LET trend_ == calculate_trend(df.Close)
             s1 == trend_vote(trend_)
             s2 == IF "Volume" \in df.cols
                   THEN volume_vote(trend_, calculate_trend(df.Volume))
                   ELSE 0
         IN  IF "Open" \notin df.cols THEN "neutral"
             ELSE sentiment_label(s1 + s2 + candle_vote(df))

\* lines 151-206; df['Close'] and row['Open'] raise KeyError on a frame
\* without the column, and the except clause returns 'neutral'
calculate_market_sentiment(df) ==
    IF df.n = 0 \/ df.n < 10 THEN "neutral"
    ELSE IF "Close" \notin df.cols THEN "neutral"
    ELSE LET trend_ == calculate_trend(df.Close)
             s1 == trend_vote(trend_)
             s2 == IF "Volume" \in df.cols
                   THEN volume_vote(trend_, calculate_trend(df.Volume))
                   ELSE 0
         IN  IF "Open" \notin df.cols THEN "neutral"
             ELSE sentiment_label(s1 + s2 + candle_vote(df))

\* --- the frames handed in
\* closes around 100: a line of the given slope plus a zigzag of the given
\* amplitude
SentClose(n, slope, amp) ==
    [i \in 1..n |-> Int2Val(100 + slope * (i - 1)
                              + amp * (IF i % 2 = 0 THEN 1 ELSE -1))]

\* volumes: rising, falling, constant, or all zero (as for currency pairs)
SentVolume(n, kind) ==
    [i \in 1..n |->
        Int2Val(CASE kind = "up" -> 100 + 10 * (i - 1)
                  [] kind = "down" -> 300 - 10 * (i - 1)
                  [] kind = "flat" -> 100
                  [] OTHER -> 0)]

\* opens: equal to the close except on the last five bars, of which the
\* first `bull` close above the open and the next `bear` close below it
SentOpen(close, bull, bear) ==
    LET n == Len(close)
    IN  [i \in 1..n |->
            LET k == i - (n - 5)
            IN  IF isna(close[i]) THEN close[i]
                ELSE IF k >= 1 /\ k <= bull THEN VSub(close[i], Int2Val(1))
                ELSE IF k > bull /\ k <= bull + bear
                     THEN VAdd(close[i], Int2Val(1))
                ELSE close[i]]

\* a NaN put in place of the value at position i
WithNaN(s, i) == [j \in 1..Len(s) |-> IF j = i THEN NaN ELSE s[j]]

SentFrame(n, cols, close, volkind, bull, bear) ==
    [n |-> n, cols |-> cols, Close |-> close,
     Open |-> SentOpen(close, bull, bear),
     Volume |-> SentVolume(n, volkind)]

EmptyFrame == [n |-> 0, cols |-> OhlcvCols, Close |-> <<>>, Open |-> <<>>,
               Volume |-> <<>>]

SentCloses(n) ==
    UNION {{SentClose(n, sl, amp), WithNaN(SentClose(n, sl, amp), 1)} :
              sl \in {-1, 0, 1, 2}, amp \in {0, 1, 6}}

SentFrames ==
    {EmptyFrame} \cup
    UNION {{SentFrame(n, cols, close, vk, c[1], c[2]) :
               cols \in {OhlcvCols, OhlcvCols \ {"Volume"}},
               close \in SentCloses(n),
               vk \in {"up", "down", "flat", "zero"},
               c \in {b \in (0..5) \X (0..5) : b[1] + b[2] <= 5}} :
           n \in 9..MaxSentLen} \cup
    {SentFrame(10, OhlcvCols \ {c}, SentClose(10, 1, 0), "up", 5, 0) :
        c \in {"Open", "Close"}}

SentIdle ==
    /\ spc = "input"
    /\ sdf = EmptyFrame
    /\ sentiment = "neutral"

SentInput ==
    /\ spc = "input"
    /\ \E df \in SentFrames : sdf' = df
    /\ spc' = "ready"
    /\ UNCHANGED <<sentiment, rsiVars, anaVars, coreVars, trendVars, volVars, svcVars>>

SentCompute ==
    /\ spc = "ready"
    /\ sentiment' = calculate_market_sentiment(sdf)
    /\ spc' = "done"
    /\ UNCHANGED <<sdf, rsiVars, anaVars, coreVars, trendVars, volVars, svcVars>>

----------------------------------------------------------------------------
(* DataAggregator.calculate_volatility (data_aggregator.py:37-65)          *)
(* The returned float is a standard deviation; the model carries its       *)
(* square (the sample variance of the returns times 100^2), which is       *)
(* rational, zero exactly when the float is zero and NaN exactly when the  *)
(* float is NaN.                                                           *)

\* Series.pct_change() computes s / s.shift(1) - 1 on the series it is
\* given.  Its fill_method default is 'pad' up to pandas 2.x (every NaN is
\* first replaced by the last value before it) and None from pandas 3.0;
\* the repository pins no version.
FillMethods == {"pad", "none"}

RECURSIVE ffill(_)
ffill(s) ==
    IF Len(s) = 0 THEN s
    ELSE LET head == ffill(SubSeq(s, 1, Len(s) - 1))
             x == s[Len(s)]
         IN  Append(head, IF isna(x) /\ Len(head) > 0 THEN head[Len(head)]
                          ELSE x)

pct_change(s, fill) ==
    LET data == IF fill = "pad" THEN ffill(s) ELSE s
    IN  [i \in 1..Len(s) |->
            IF i = 1 THEN NaN
            ELSE VSub(VDiv(data[i], data[i - 1]), Int2Val(1))]

\* the same, with no fill under either default
pct_change_nofill(s, fill) == pct_change(s, "none")

\* Series.dropna()
RECURSIVE dropna(_)
dropna(s) ==
    IF Len(s) = 0 THEN s
    ELSE LET head == dropna(SubSeq(s, 1, Len(s) - 1))
         IN  IF isna(s[Len(s)]) THEN head ELSE Append(head, s[Len(s)])

RECURSIVE VSum(_)
VSum(s) == IF Len(s) = 0 THEN Int2Val(0)
           ELSE VAdd(VSum(SubSeq(s, 1, Len(s) - 1)), s[Len(s)])

\* Series.std() squared: the sample variance (ddof=1), NaN for fewer than
\* two values
sample_variance(s) ==
    LET m == Len(s)
        mean == VDiv(VSum(s), Int2Val(m))
        dev == [i \in 1..m |-> VSub(s[i], mean)]
    IN  IF m < 2 THEN NaN
        ELSE VDiv(VSum([i \in 1..m |-> VMul(dev[i], dev[i])]),
                  Int2Val(m - 1))

\* lines 47-60, squared
calculate_volatility(prices, fill) ==
    IF Len(prices) < 2 THEN Int2Val(0)
    ELSE LET returns == dropna(pct_change(prices, fill))
         IN  IF Len(returns) = 0 THEN Int2Val(0)
             ELSE VMul(sample_variance(returns), Int2Val(100 * 100))

\* prices 1..MaxPrice and NaN
VolValues == {NaN} \cup {Int2Val(p) : p \in 1..MaxPrice}

VolIdle ==
    /\ vpc = "input"
    /\ vPrices = <<>>
    /\ fill_method = "pad"
    /\ volatility = Int2Val(0)

VolInput ==
    /\ vpc = "input"
    /\ \E s \in SeqsUpTo(VolValues, MaxVolLen), f \in FillMethods :
          /\ vPrices' = s
          /\ fill_method' = f
    /\ vpc' = "ready"
    /\ UNCHANGED <<volatility, rsiVars, anaVars, coreVars, trendVars, sentVars, svcVars>>

VolCompute ==
    /\ vpc = "ready"
    /\ volatility' = calculate_volatility(vPrices, fill_method)
    /\ vpc' = "done"
    /\ UNCHANGED <<vPrices, fill_method, rsiVars, anaVars, coreVars,
                   trendVars, sentVars, svcVars>>

AggIdle == TrendIdle /\ SentIdle /\ VolIdle

----------------------------------------------------------------------------
(* DataFetcher (data_fetcher.py): fetch_all with its cache                 *)
(* A datum is named by the asset it was fetched for and the time of the    *)
(* fetch.                                                                  *)

cache_ttl == 300

\* timedelta.seconds: the seconds within the last day of the difference,
\* 0..86399; the days are held in timedelta.days
SecondsPerDay == 86400
timedelta_seconds(delta) == delta % SecondsPerDay

\* self.assets
FetchAssets == <<"BTC", "ETH">>

NoEntry == [timestamp |-> -1, data |-> [asset |-> "", at |-> -1]]

\* lines 107-113
is_cached(asset) ==
    /\ cache[asset] # NoEntry
    /\ timedelta_seconds(fnow - cache[asset].timestamp) < cache_ttl

\* lines 33-39: the coroutines put in tasks, in the order of self.assets
RECURSIVE TasksFrom(_)
TasksFrom(k) ==
    IF k > Len(FetchAssets) THEN <<>>
    ELSE IF is_cached(FetchAssets[k]) THEN TasksFrom(k + 1)
    ELSE <<FetchAssets[k]>> \o TasksFrom(k + 1)

\* what asyncio.gather hands back for one task: a list of candles, None
\* (no exchange answered, line 82) or an exception object
FetchOutcomes == {"data", "none", "exception"}

\* line 45: zip(self.assets, results) pairs the k-th result with the k-th
\* asset of self.assets, up to the shorter of the two
Zipped(results) ==
    {k \in 1..Len(results) : k <= Len(FetchAssets)}

\* the last pair of the zip that stores something under the asset, or 0
StoredFrom(asset, results) ==
    LET ks == {k \in Zipped(results) :
                  FetchAssets[k] = asset /\ results[k].kind = "data"}
    IN  IF ks = {} THEN 0 ELSE CHOOSE k \in ks : \A j \in ks : j <= k

\* lines 28-53
fetch_all ==
    /\ LET tasks == TasksFrom(1)
       IN  \E kinds \in [1..Len(tasks) -> FetchOutcomes] :
             LET results ==
                     [k \in 1..Len(tasks) |->
                         [kind |-> kinds[k],
                          data |-> [asset |-> tasks[k], at |-> fnow]]]
                 assets == {FetchAssets[k] : k \in 1..Len(FetchAssets)}
             IN  /\ fetch_result' =
                       [a \in assets |->
                           IF StoredFrom(a, results) # 0
                           THEN results[StoredFrom(a, results)].data
                           ELSE IF is_cached(a) THEN cache[a].data
                           ELSE NoEntry.data]
                 /\ cache' =
                       [a \in assets |->
                           IF StoredFrom(a, results) # 0
                           THEN [timestamp |-> fnow,
                                 data |-> results[StoredFrom(a, results)].data]
                           ELSE cache[a]]
                 /\ fetch_log' =
                       [calls |-> 1,
                        from_cache |-> {a \in assets : is_cached(a)},
                        age |-> [a \in assets |->
                                    IF cache[a] = NoEntry THEN -1
                                    ELSE fnow - cache[a].timestamp],
                        tasks |-> tasks]
    /\ UNCHANGED <<fnow, ticks>>
    /\ UNCHANGED <<rsiVars, anaVars, coreVars, aggVars, tradeVars, stratVars>>

\* the time that passes between two calls
TimeSteps == {1, cache_ttl - 1, SecondsPerDay}

Tick ==
    /\ ticks < MaxTicks
    /\ \E d \in TimeSteps : fnow' = fnow + d
    /\ ticks' = ticks + 1
    /\ UNCHANGED <<cache, fetch_result, fetch_log>>
    /\ UNCHANGED <<rsiVars, anaVars, coreVars, aggVars, tradeVars, stratVars>>

\* __init__: self.cache = {}
FetchIdle ==
    /\ fnow = 0
    /\ ticks = 0
    /\ cache = [a \in {FetchAssets[k] : k \in 1..Len(FetchAssets)} |-> NoEntry]
    /\ fetch_result = [a \in {FetchAssets[k] : k \in 1..Len(FetchAssets)} |->
                          NoEntry.data]
    /\ fetch_log = [calls |-> 0, from_cache |-> {},
                    age |-> [a \in {FetchAssets[k] : k \in 1..Len(FetchAssets)}
                                |-> -1],
                    tasks |-> <<>>]

----------------------------------------------------------------------------
(* TradingCore.check_and_execute_trades (main.py) with execute_auto_trade  *)
(* (autotrader_service.py) and the mock PocketOptionAPI                    *)

RequestIds == 1..MaxRequests

\* user_id of a row: 0 stands for a missing (falsy) user_id
UserIds == {0, 7}

AbsentRequest == [status |-> "absent", user_id |-> 0]

\* the strategies check_and_execute_trades can find in self.current_strategy:
\* None, the default, rows of the store with allow_trading true or false,
\* and a row without an allow_trading value
TradeStrategies ==
    (StrategySet \ {[default_strategy EXCEPT !.name = "Slow", !.rsi_period = 30]})
    \cup {[name |-> "Bare", rsi_period |-> 14, rsi_oversold |-> 30,
           rsi_overbought |-> 70, default_amount |-> 10,
           default_timeframe |-> 60]}

\* the signals apply_algorithm handed over
TradeSignals ==
    {<<>>,
     <<CoreSignal("EURUSD=X", "CALL", Int2Val(20), default_strategy)>>,
     <<CoreSignal("EURUSD=X", "PUT", Int2Val(80), default_strategy),
       CoreSignal("GBPUSD=X", "CALL", Int2Val(20), default_strategy)>>}

allow_trading_default_true(strategy) ==
    IF "allow_trading" \in DOMAIN strategy THEN strategy.allow_trading ELSE TRUE

\* self.current_strategy.get('allow_trading', False), line 419
allow_trading(strategy) ==
    IF "allow_trading" \in DOMAIN strategy THEN strategy.allow_trading ELSE FALSE

\* .select("user_id", "id").eq("status", "pending").limit(5), line 425
SelectLimit == 5

RECURSIVE PendingFrom(_)
PendingFrom(id) ==
    IF id > MaxRequests THEN <<>>
    ELSE IF requests[id].status = "pending"
         THEN <<id>> \o PendingFrom(id + 1)
         ELSE PendingFrom(id + 1)

SelectPending ==
    LET all == PendingFrom(1)
    IN  SubSeq(all, 1, Min(SelectLimit, Len(all)))

\* PocketOptionAPI.authenticate: the mock always succeeds
authenticate == TRUE

\* PocketOptionAPI.place_trade: None when not authenticated, otherwise the
\* mock places the trade
place_trade(is_authenticated) ==
    IF is_authenticated THEN [status |-> "pending"] ELSE [status |-> "none"]

\* what the environment of one execute_auto_trade call can do: no
\* ENCRYPTION_KEY, no credentials from the UI bot, a decryption error, or
\* the platform is reached and then the insert into 'trades' succeeds or
\* raises, or po_api.close() raises in the finally block
ExecPaths == {"no_key", "no_credentials", "decrypt_error",
              "logged", "insert_error", "close_error"}

\* lines 67-134: whether a trade was placed on the platform, and the value
\* check_and_execute_trades ends up with in trade_success (an exception
\* leaving execute_auto_trade is caught at main.py:458 and gives False)
execute_auto_trade(path) ==
    IF path \in {"no_key", "no_credentials", "decrypt_error"}
    THEN [placed |-> FALSE, trade_success |-> FALSE]
    ELSE IF ~authenticate
    THEN [placed |-> FALSE, trade_success |-> FALSE]
    ELSE LET trade_result == place_trade(authenticate)
         IN  IF trade_result.status \in {"none", "error"}
             THEN [placed |-> FALSE, trade_success |-> FALSE]
             ELSE [placed |-> TRUE, trade_success |-> path = "logged"]

NoTradeLog ==
    [called |-> {}, placed |-> {},
     set_status |-> [id \in RequestIds |-> ""]]

TradeIdle ==
    /\ supabase = "unset"
    /\ xpc = "idle"
    /\ trade_strategy = NoStrategy
    /\ trade_signals = <<>>
    /\ pending_requests = <<>>
    /\ xi = 1
    /\ requests = [id \in RequestIds |-> AbsentRequest]
    /\ placed = [id \in RequestIds |-> 0]
    /\ trade_log = NoTradeLog
    /\ cycles = 0

\* TradingCore.__init__, lines 30-82: a client, or None
TradingCore_init ==
    /\ supabase = "unset"
    /\ supabase' \in {"client", "none"}
    /\ UNCHANGED <<xpc, trade_strategy, trade_signals, pending_requests, xi,
                   requests, placed, trade_log, cycles>>
    /\ UNCHANGED <<rsiVars, anaVars, coreVars, aggVars, fetchVars, stratVars>>

\* the UI bot inserts a pending row
NewRequest ==
    /\ xpc \in {"idle", "done"}
    /\ \E id \in RequestIds, u \in UserIds :
          /\ requests[id] = AbsentRequest
          /\ requests' = [requests EXCEPT ![id] = [status |-> "pending", user_id |-> u]]
    /\ UNCHANGED <<supabase, xpc, trade_strategy, trade_signals,
                   pending_requests, xi, placed, trade_log, cycles>>
    /\ UNCHANGED <<rsiVars, anaVars, coreVars, aggVars, fetchVars, stratVars>>

\* lines 412-437: the early returns, or the start of the loop
check_and_execute_trades ==
    /\ xpc \in {"idle", "done"}
    /\ supabase # "unset"
    /\ cycles < MaxCycles
    /\ cycles' = cycles + 1
    /\ \E strategy \in TradeStrategies, sigs \in TradeSignals,
          select_ok \in BOOLEAN :
          /\ trade_strategy' = strategy
          /\ trade_signals' = sigs
          /\ IF supabase # "client" THEN
                 pending_requests' = <<>> /\ xpc' = "done"
             ELSE IF strategy = NoStrategy \/ ~allow_trading(strategy) THEN
                 pending_requests' = <<>> /\ xpc' = "done"
             ELSE IF ~select_ok THEN
                 pending_requests' = <<>> /\ xpc' = "done"
             ELSE
                 /\ pending_requests' = SelectPending
                 /\ xpc' = IF SelectPending = <<>> THEN "done" ELSE "loop"
    /\ xi' = 1
    /\ trade_log' = NoTradeLog
    /\ UNCHANGED <<supabase, requests, placed>>
    /\ UNCHANGED <<rsiVars, anaVars, coreVars, aggVars, fetchVars, stratVars>>

TradeAdvance ==
    /\ xi' = xi + 1
    /\ xpc' = IF xi + 1 > Len(pending_requests) THEN "done" ELSE "loop"

\* lines 440-449: an iteration that ends in `continue`
trade_skip ==
    /\ xpc = "loop"
    /\ LET req == requests[pending_requests[xi]]
       IN  req.user_id = 0 \/ trade_signals = <<>>
    /\ TradeAdvance
    /\ UNCHANGED <<supabase, trade_strategy, trade_signals, pending_requests,
                   requests, placed, trade_log, cycles>>
    /\ UNCHANGED <<rsiVars, anaVars, coreVars, aggVars, fetchVars, stratVars>>

\* lines 451-470: the trade and the status update of one request
trade_request ==
    /\ xpc = "loop"
    /\ LET request_id == pending_requests[xi]
           req == requests[request_id]
       IN  /\ req.user_id # 0
           /\ trade_signals # <<>>
           /\ \E path \in ExecPaths, update_ok \in BOOLEAN :
                 LET done == execute_auto_trade(path)
                     new_status == IF done.trade_success THEN "executed"
                                   ELSE "failed"
                 IN  /\ placed' = [placed EXCEPT ![request_id] =
                                      @ + IF done.placed THEN 1 ELSE 0]
                     /\ requests' = IF update_ok
                                    THEN [requests EXCEPT ![request_id].status = new_status]
                                    ELSE requests
                     /\ trade_log' =
                           [called |-> trade_log.called \cup {request_id},
                            placed |-> IF done.placed
                                       THEN trade_log.placed \cup {request_id}
                                       ELSE trade_log.placed,
                            set_status |->
                                IF update_ok
                                THEN [trade_log.set_status EXCEPT ![request_id] = new_status]
                                ELSE trade_log.set_status]
    /\ TradeAdvance
    /\ UNCHANGED <<supabase, trade_strategy, trade_signals, pending_requests,
                   cycles>>
    /\ UNCHANGED <<rsiVars, anaVars, coreVars, aggVars, fetchVars, stratVars>>

----------------------------------------------------------------------------
(* StrategyManager (strategy_manager.py)                                   *)

\* the rows of strategy_settings, by strategy_name
StrategyNames == <<"A", "B">>

StrategyRows == 1..Len(StrategyNames)

\* self.last_update = None
None == -1

\* .eq("is_active", True)
ActiveRows == {r \in StrategyRows : store[r].is_active}

\* .order("updated_at", desc=True): rows with equal updated_at come in the
\* order of the table
RECURSIVE OrderDesc(_)
OrderDesc(rows) ==
    IF rows = {} THEN <<>>
    ELSE LET first == CHOOSE r \in rows :
                         \A q \in rows :
                            \/ store[r].updated_at > store[q].updated_at
                            \/ store[r].updated_at = store[q].updated_at /\ r <= q
         IN  <<[strategy_name |-> StrategyNames[first],
                updated_at |-> store[first].updated_at]>>
             \o OrderDesc(rows \ {first})

\* lines 22-36 with a response, and with an exception from the store
load_strategies_result(ok) ==
    IF ok
    THEN LET data == OrderDesc(ActiveRows)
         IN  [strategies |-> data,
              last_update |-> IF data # <<>> THEN data[1].updated_at ELSE None]
    ELSE [strategies |-> <<>>, last_update |-> last_update]

load_strategies ==
    /\ \E ok \in BOOLEAN :
          /\ strategies' = load_strategies_result(ok).strategies
          /\ last_update' = load_strategies_result(ok).last_update
          /\ strat_log' = [call |-> "load_strategies", ok |-> ok, result |-> FALSE]
    /\ UNCHANGED <<store, edits>>
    /\ UNCHANGED <<rsiVars, anaVars, coreVars, aggVars, fetchVars, tradeVars>>

\* line 63: response.data and response.data[0]['updated_at'] != self.last_update
updates_found(data) ==
    data # <<>> /\ data[1].updated_at # last_update

\* lines 53-71
check_for_updates ==
    /\ \E query_ok \in BOOLEAN, load_ok \in BOOLEAN :
          LET data == SubSeq(OrderDesc(ActiveRows), 1, Min(1, Cardinality(ActiveRows)))
          IN  IF query_ok /\ updates_found(data)
              THEN /\ strategies' = load_strategies_result(load_ok).strategies
                   /\ last_update' = load_strategies_result(load_ok).last_update
                   /\ strat_log' = [call |-> "check_for_updates", ok |-> load_ok,
                                    result |-> TRUE]
              ELSE /\ load_ok
                   /\ UNCHANGED <<strategies, last_update>>
                   /\ strat_log' = [call |-> "check_for_updates", ok |-> query_ok,
                                    result |-> FALSE]
    /\ UNCHANGED <<store, edits>>
    /\ UNCHANGED <<rsiVars, anaVars, coreVars, aggVars, fetchVars, tradeVars>>

\* the admin bot changes a row: it switches is_active, and the row's
\* updated_at is either stamped with the time of the edit or left alone
StoreEdit ==
    /\ edits < MaxEdits
    /\ edits' = edits + 1
    /\ \E r \in StrategyRows, active \in BOOLEAN, stamp \in BOOLEAN :
          store' = [store EXCEPT ![r] =
                       [is_active |-> active,
                        updated_at |-> IF stamp THEN edits + 1
                                       ELSE store[r].updated_at]]
    /\ strat_log' = [call |-> "edit", ok |-> TRUE, result |-> FALSE]
    /\ UNCHANGED <<strategies, last_update>>
    /\ UNCHANGED <<rsiVars, anaVars, coreVars, aggVars, fetchVars, tradeVars>>

\* __init__, lines 15-18, over a table with no active row
StratIdle ==
    /\ store = [r \in StrategyRows |-> [is_active |-> FALSE, updated_at |-> 0]]
    /\ strategies = <<>>
    /\ last_update = None
    /\ strat_log = [call |-> "", ok |-> FALSE, result |-> FALSE]
    /\ edits = 0

SvcIdle == FetchIdle /\ TradeIdle /\ StratIdle

----------------------------------------------------------------------------
(* Specification SpecRsi: both calculate_rsi on every bounded series *)

RsiPeriods == {2, 3}

RsiIdle ==
    /\ rpc = "input"
    /\ rPrices = <<>>
    /\ rPeriod = 2
    /\ rsiA = <<>>
    /\ rsiT = <<>>

RsiInit == RsiIdle /\ AnaIdle /\ CoreIdle /\ AggIdle /\ SvcIdle

RsiInput ==
    /\ rpc = "input"
    /\ \E s \in SeqsUpTo(1..MaxPrice, MaxLen), p \in RsiPeriods :
          /\ Len(s) >= 1
          /\ rPrices' = s
          /\ rPeriod' = p
    /\ rpc' = "ready"
    /\ UNCHANGED <<rsiA, rsiT>>
    /\ UNCHANGED <<anaVars, coreVars, aggVars, svcVars>>

RsiCompute ==
    /\ rpc = "ready"
    /\ rsiA' = MarketAnalyzer_calculate_rsi(rPrices, rPeriod)
    /\ rsiT' = TradingCore_calculate_rsi(rPrices, rPeriod)
    /\ rpc' = "done"
    /\ UNCHANGED <<rPrices, rPeriod>>
    /\ UNCHANGED <<anaVars, coreVars, aggVars, svcVars>>

RsiNext == RsiInput \/ RsiCompute

SpecRsi == RsiInit /\ [][RsiNext]_vars

----------------------------------------------------------------------------
(* Specification SpecTrend: calculate_trend on every bounded series *)

TrendInit == RsiIdle /\ AnaIdle /\ CoreIdle /\ AggIdle /\ SvcIdle

TrendNext == TrendInput \/ TrendCompute

SpecTrend == TrendInit /\ [][TrendNext]_vars

----------------------------------------------------------------------------
(* Specification SpecSentiment: calculate_market_sentiment on every frame  *)
(* of SentFrames                                                           *)

SentInit == RsiIdle /\ AnaIdle /\ CoreIdle /\ AggIdle /\ SvcIdle

SentNext == SentInput \/ SentCompute

SpecSentiment == SentInit /\ [][SentNext]_vars

----------------------------------------------------------------------------
(* Specification SpecVolatility: calculate_volatility on every bounded     *)
(* series, under both pct_change defaults                                  *)

VolInit == RsiIdle /\ AnaIdle /\ CoreIdle /\ AggIdle /\ SvcIdle

VolNext == VolInput \/ VolCompute

SpecVolatility == VolInit /\ [][VolNext]_vars

----------------------------------------------------------------------------
(* Specification SpecFetcher: fetch_all calls with time passing between    *)
(* them                                                                    *)

FetchInit == RsiIdle /\ AnaIdle /\ CoreIdle /\ AggIdle /\ SvcIdle

FetchNext == fetch_all \/ Tick

SpecFetcher == FetchInit /\ [][FetchNext]_vars

----------------------------------------------------------------------------
(* Specification SpecTrade: cycles of check_and_execute_trades over the    *)
(* signal_requests table                                                   *)

TradeInit == RsiIdle /\ AnaIdle /\ CoreIdle /\ AggIdle /\ SvcIdle

TradeNext ==
    \/ TradingCore_init
    \/ NewRequest
    \/ check_and_execute_trades
    \/ trade_skip
    \/ trade_request

SpecTrade == TradeInit /\ [][TradeNext]_vars

----------------------------------------------------------------------------
(* Specification SpecStrategy: StrategyManager calls between edits of the  *)
(* strategy table                                                          *)

StratInit == RsiIdle /\ AnaIdle /\ CoreIdle /\ AggIdle /\ SvcIdle

StratNext == load_strategies \/ check_for_updates \/ StoreEdit

SpecStrategy == StratInit /\ [][StratNext]_vars

----------------------------------------------------------------------------
(* Specification Spec: the signal engines on a batch of instruments.  The  *)
(* two engines share no state; a behaviour runs one call of one of them.  *)

Init == RsiIdle /\ AnaIdle /\ CoreIdle /\ AggIdle /\ SvcIdle

Next ==
    \/ analyze_with_strategy
    \/ analyze_skip_empty
    \/ analyze_raise
    \/ analyze_symbol
    \/ apply_algorithm
    \/ apply_skip
    \/ apply_asset

Spec == Init /\ [][Next]_vars

----------------------------------------------------------------------------
(* Properties *)

\* the checks of a rule set whose condition holds on a row
Fired(checks) == {i \in 1..Len(checks) : checks[i].fires}
FiredNames(checks) == {checks[i].name : i \in Fired(checks)}
Range(s) == {s[i] : i \in 1..Len(s)}

Evaluated == latest_eval.symbol # ""
BuyRules == BuyChecks(latest_eval.latest, parameters)
SellRules == SellChecks(latest_eval.latest, parameters)

\* C1: a direction triggers if and only if the number of its checks that
\* fired on the latest bar is at least min_conditions, whatever the
\* confidence; with min_conditions = 2 the moving-average alignment alone
\* (weight 30) does not trigger.
C1_TriggerIffCount ==
    Evaluated =>
        /\ latest_eval.buy.trigger <=>
              Cardinality(Fired(BuyRules)) >= parameters.min_conditions
        /\ latest_eval.sell.trigger <=>
              Cardinality(Fired(SellRules)) >= parameters.min_conditions
        /\ parameters.min_conditions = 2 /\ FiredNames(BuyRules) = {"golden_cross"}
              => ~latest_eval.buy.trigger /\ latest_eval.buy.confidence = 30
        /\ parameters.min_conditions = 2 /\ FiredNames(SellRules) = {"death_cross"}
              => ~latest_eval.sell.trigger /\ latest_eval.sell.confidence = 30

\* C1 witness: only the moving-average alignment fired, the minimum is 2 and
\* the direction did not trigger
C1_Witness ==
    /\ Evaluated
    /\ parameters.min_conditions = 2
    /\ latest_eval.buy.conditions = <<"golden_cross">>
    /\ ~latest_eval.buy.trigger

\* the weights as the specification lists them
ClaimWeight(name) ==
    CASE name \in {"rsi_oversold", "rsi_overbought"} -> 25
      [] name \in {"macd_bullish", "macd_bearish"} -> 20
      [] name \in {"bb_oversold", "bb_overbought"} -> 15
      [] name \in {"high_volume", "high_volume_down"} -> 10
      [] name \in {"golden_cross", "death_cross"} -> 30

RECURSIVE SumWeights(_)
SumWeights(names) ==
    IF names = <<>> THEN 0
    ELSE ClaimWeight(Head(names)) + SumWeights(Tail(names))

ConfidenceOk(result, rules) ==
    /\ result.confidence = Min(100, SumWeights(result.conditions))
    /\ result.confidence \in 0..100
    /\ Range(result.conditions) = FiredNames(rules)
    /\ Len(result.conditions) = Cardinality(FiredNames(rules))

\* C2: the confidence of a direction is min(100, sum of the weights of its
\* fired checks), weights 25/20/15/10/30; it lies in 0..100 and the names in
\* 'conditions' are exactly the fired checks.
C2_ConfidenceIsCappedWeightSum ==
    Evaluated =>
        /\ ConfidenceOk(latest_eval.buy, BuyRules)
        /\ ConfidenceOk(latest_eval.sell, SellRules)

\* C2 witness: all five bullish checks fired, confidence 100
C2_Witness ==
    /\ Evaluated
    /\ Len(latest_eval.buy.conditions) = 5
    /\ latest_eval.buy.confidence = 100

SymbolIndex(sym) == CHOOSE i \in 1..Len(Symbols) : Symbols[i] = sym

TargetsOk(s) ==
    LET close == LastClose(market_data[SymbolIndex(s.symbol)])
        tp == parameters.tp_percent
        sl == parameters.sl_percent
    IN  /\ s.entry_price = Int2Val(close)
        /\ s.action = "buy" =>
              /\ s.tp_price = Num(close * (100 + tp), 100)
              /\ s.sl_price = Num(close * (100 - sl), 100)
        /\ s.action = "sell" =>
              /\ s.tp_price = Num(close * (100 - tp), 100)
              /\ s.sl_price = Num(close * (100 + sl), 100)
        /\ close = 100 /\ tp = 3 /\ sl = 2 =>
              /\ s.action = "buy" =>
                    s.tp_price = Int2Val(103) /\ s.sl_price = Int2Val(98)
              /\ s.action = "sell" =>
                    s.tp_price = Int2Val(97) /\ s.sl_price = Int2Val(102)

\* C3: every signal carries the last close as entry price, and for a buy
\* take-profit = close*(1+tp/100), stop-loss = close*(1-sl/100), for a sell
\* take-profit = close*(1-tp/100), stop-loss = close*(1+sl/100); with entry
\* 100 and the defaults 3 and 2 that is 103/98 and 97/102.
C3_TargetPrices ==
    \A k \in 1..Len(signals) : TargetsOk(signals[k])

\* C3 witness: a buy and a sell signal with entry price 100
C3_Witness ==
    /\ \E k \in 1..Len(signals) :
          signals[k].action = "buy" /\ signals[k].entry_price = Int2Val(100)
    /\ \E k \in 1..Len(signals) :
          signals[k].action = "sell" /\ signals[k].entry_price = Int2Val(100)

InRange0to100(v) ==
    v.k = "num" /\ 0 <= v.n /\ v.n <= 100 * v.d

RsiClaimAt(rsi, i) ==
    LET loss == avg_loss(rPrices, rPeriod)[i]
    IN  /\ ~isna(rsi[i]) => InRange0to100(rsi[i])
        /\ ~isna(loss) => (isna(rsi[i]) <=> loss = Int2Val(0))

\* C4: at every index the oscillator is within [0,100] when defined, and
\* (where the trailing-window loss average exists) it is undefined exactly
\* when that average is zero: never 100 or infinity there.  Stated of both
\* calculate_rsi.
C4_RsiUndefinedIffZeroLoss ==
    rpc = "done" =>
        /\ \A i \in 1..Len(rsiA) : RsiClaimAt(rsiA, i)
        /\ \A i \in 1..Len(rsiT) : RsiClaimAt(rsiT, i)

LongestWindow == 200

FrameOf(sym) == market_data[SymbolIndex(sym)]
IndicatorCols(row) == DOMAIN row \ RequiredCols

\* C5: no indicator is computed and no signal is emitted on a series
\* shorter than the longest window of the indicators in use (200 points in
\* MarketAnalyzer, period + 1 points for the oscillator of apply_algorithm).
C5_NoComputationOnShortSeries ==
    /\ \A k \in 1..Len(signals) : FrameOf(signals[k].symbol).n >= LongestWindow
    /\ Evaluated /\ latest_eval.n < LongestWindow
          => IndicatorCols(latest_eval.latest) = {}
    /\ \A i \in 1..Len(core_seen) :
          core_data[i].kind = "rows"
          /\ core_data[i].n < current_strategy.rsi_period + 1
              => core_seen[i].skip

\* C6: a series that lacks one of open/high/low/close/volume aborts the
\* pipeline for its instrument: no check is evaluated on partially computed
\* indicators and no signal is emitted for it.
C6_MissingFieldAborts ==
    Evaluated /\ ~(RequiredCols \subseteq latest_eval.cols) =>
        /\ latest_eval.buy.evaluated = 0
        /\ latest_eval.sell.evaluated = 0
        /\ latest_eval.out = <<>>

\* C7: when a batch is done, every instrument other than the failing ones
\* was processed: an error on one instrument stops no other instrument.
C7_ErrorsAreIsolated ==
    /\ apc = "done" =>
          \A i \in 1..Len(market_data) :
              market_data[i].kind = "rows" => i \in analyzed
    /\ cpc = "done" /\ current_strategy # NoStrategy =>
          Len(core_seen) = Len(core_data)

\* the operands of each check
Operands(name) ==
    CASE name \in {"rsi_oversold", "rsi_overbought"} -> {"rsi"}
      [] name \in {"macd_bullish", "macd_bearish"} -> {"macd", "macd_signal", "macd_hist"}
      [] name = "bb_oversold" -> {"close", "bb_lower"}
      [] name = "bb_overbought" -> {"close", "bb_upper"}
      [] name = "high_volume" -> {"volume_ratio"}
      [] name = "high_volume_down" -> {"volume_ratio", "close", "open"}
      [] name \in {"golden_cross", "death_cross"} -> {"sma_20", "sma_50", "sma_200"}

Undefined(v) == v.k \in {"nan", "na"}

\* a check has an undefined operand on the row: the column is there, its
\* value is NaN
HasNaNOperand(name, row) ==
    \E c \in Operands(name) \cap DOMAIN row : Undefined(row[c])

AllColumns ==
    RequiredCols \cup
    {"rsi", "macd", "macd_signal", "macd_hist", "bb_upper", "bb_middle",
     "bb_lower", "volume_sma", "volume_ratio", "sma_20", "sma_50", "sma_200"}

NaNChecks(rules, row) ==
    {i \in 1..Len(rules) : HasNaNOperand(rules[i].name, row)}

NaNSilent(result, rules, row) ==
    /\ \A i \in NaNChecks(rules, row) : rules[i].name \notin Range(result.conditions)
    /\ result.confidence <=
          SumOver((1..Len(rules)) \ NaNChecks(rules, row),
                  [i \in 1..Len(rules) |-> rules[i].weight])
    /\ AllColumns \subseteq DOMAIN row => ~result.raised /\ result.evaluated = Len(rules)

\* C8: a check with an undefined (NaN) operand on the latest bar does not
\* fire, adds no name and no weight, and the evaluation does not raise; in
\* apply_algorithm an undefined latest oscillator value gives no signal for
\* that asset.
C8_UndefinedOperandNeverFires ==
    /\ Evaluated =>
          /\ NaNSilent(latest_eval.buy, BuyRules, latest_eval.latest)
          /\ NaNSilent(latest_eval.sell, SellRules, latest_eval.latest)
    /\ \A i \in 1..Len(core_seen) :
          Undefined(core_seen[i].value) =>
              /\ core_seen[i].skip
              /\ \A k \in 1..Len(core_signals) :
                    core_signals[k].asset # StripSuffix(CoreAssets[i])
    /\ \A k \in 1..Len(core_signals) : ~Undefined(core_signals[k].value)

\* C8 witness: a full row whose oscillator and long moving average are NaN
\* while another check fired
C8_Witness ==
    /\ Evaluated
    /\ AllColumns \subseteq DOMAIN latest_eval.latest
    /\ Undefined(latest_eval.latest["rsi"])
    /\ Undefined(latest_eval.latest["sma_200"])
    /\ latest_eval.buy.conditions # <<>>

Actions(out) == [k \in 1..Len(out) |-> out[k].action]

\* C9: generate_signals emits a buy signal iff the bullish set triggers and
\* a sell signal iff the bearish set triggers, on the same bar: both
\* (buy first) when both trigger, nothing when neither does.
C9_BothDirectionsIndependent ==
    Evaluated =>
        /\ Actions(latest_eval.out) =
              (IF latest_eval.buy.trigger THEN <<"buy">> ELSE <<>>)
              \o (IF latest_eval.sell.trigger THEN <<"sell">> ELSE <<>>)
        /\ \A k \in 1..Len(latest_eval.out) :
              /\ latest_eval.out[k].symbol = latest_eval.symbol
              /\ latest_eval.out[k].action = "buy" =>
                    latest_eval.out[k].conditions_met = latest_eval.buy.conditions
              /\ latest_eval.out[k].action = "sell" =>
                    latest_eval.out[k].conditions_met = latest_eval.sell.conditions

\* C9 witness: both rule sets triggered on one bar and both signals are out
C9_Witness ==
    /\ Evaluated
    /\ latest_eval.buy.trigger /\ latest_eval.sell.trigger
    /\ Len(latest_eval.out) = 2

\* C10: from the first and the last point of the window, direction is 'up'
\* iff the change exceeds 1 percent, 'down' iff it is below -1 percent, and
\* 'sideways' otherwise; exactly +1 or -1 percent is 'sideways'.
C10_TrendDirection ==
    tpc = "done" /\ Len(tPrices) >= 2 =>
        LET first == tPrices[1]
            last == tPrices[Len(tPrices)]
            known == ~isna(first) /\ ~isna(last)
            rise == known /\ (last.n - first.n) * 100 > first.n
            fall == known /\ (last.n - first.n) * 100 < -(first.n)
        IN  /\ trend.direction = "up" <=> rise
            /\ trend.direction = "down" <=> fall
            /\ trend.direction = "sideways" <=> ~rise /\ ~fall
            /\ known /\ (last.n - first.n) * 100 \in {first.n, -(first.n)}
                  => trend.direction = "sideways"

\* C10 witness: a window whose change is exactly +1 percent, classified
\* sideways
C10_Witness ==
    /\ tpc = "done"
    /\ Len(tPrices) >= 2
    /\ tPrices[1] = Int2Val(100)
    /\ tPrices[Len(tPrices)] = Int2Val(101)
    /\ trend.direction = "sideways"

\* direction of a series read off its first and last value: more than one
\* percent up, more than one percent down, or neither
ChangeClass(prices) ==
    LET first == prices[1]
        last == prices[Len(prices)]
    IN  IF first.k # "num" \/ last.k # "num" \/ first.n <= 0 THEN "sideways"
        ELSE IF (last.n - first.n) * 100 > first.n THEN "up"
        ELSE IF (last.n - first.n) * 100 < -(first.n) THEN "down"
        ELSE "sideways"

Sign(x) == IF x > 0 THEN 1 ELSE IF x < 0 THEN -1 ELSE 0

\* the three votes of a frame, as the sentiment rule states them
PriceVote(df) ==
    LET strong == Gt(trend_strength(df.Close), Int2Val(50))
    IN  IF ChangeClass(df.Close) = "up" /\ strong THEN 1
        ELSE IF ChangeClass(df.Close) = "down" /\ strong THEN -1
        ELSE 0
VolumeVote(df) ==
    IF "Volume" \in df.cols /\ ChangeClass(df.Volume) = "up"
    THEN (IF ChangeClass(df.Close) = "up" THEN 1 ELSE -1)
    ELSE 0
CandleVote(df) ==
    LET last5 == {i \in 1..df.n : i + 5 > df.n}
        up == {i \in last5 : Gt(df.Close[i], df.Open[i])}
        dn == {i \in last5 : Lt(df.Close[i], df.Open[i])}
    IN  Sign(Cardinality(up) - Cardinality(dn))
WellFormed(df) == {"Open", "Close"} \subseteq df.cols

\* C11: a window of fewer than 10 points is 'neutral'; otherwise the label
\* is the sign of trend vote + volume vote + candle vote (positive bullish,
\* negative bearish, zero neutral), where a rising volume with a price that
\* is not rising, sideways included, votes -1.
C11_SentimentIsSignOfVotes ==
    spc = "done" /\ WellFormed(sdf) =>
        IF sdf.n < 10 THEN sentiment = "neutral"
        ELSE LET total == PriceVote(sdf) + VolumeVote(sdf) + CandleVote(sdf)
             IN  sentiment = CASE total > 0 -> "bullish"
                               [] total < 0 -> "bearish"
                               [] OTHER -> "neutral"

\* C11 witness: rising volume under a sideways price is the only vote cast,
\* and the window is labelled bearish
C11_Witness ==
    /\ spc = "done"
    /\ sdf.n >= 10
    /\ WellFormed(sdf)
    /\ ChangeClass(sdf.Close) = "sideways"
    /\ VolumeVote(sdf) = -1
    /\ PriceVote(sdf) = 0 /\ CandleVote(sdf) = 0
    /\ sentiment = "bearish"

\* the two results of the condition evaluator on the data of the batch at
\* position j, under the parameters of the batch
EvalOf(j) ==
    LET row == LatestRow(market_data[j], parameters)
    IN  [buy |-> check_buy_conditions(row, parameters),
         sell |-> check_sell_conditions(row, parameters)]

Frames == {j \in 1..Len(market_data) : market_data[j].kind = "rows"}

Monotone(a, b) ==
    Range(a.conditions) \subseteq Range(b.conditions)
        => a.confidence <= b.confidence /\ b.confidence <= 100

\* C12: for one direction, when the checks fired on one input are among
\* the checks fired on another, the confidence of the first is at most the
\* confidence of the second, which is at most 100.
C12_ConfidenceMonotone ==
    Evaluated =>
        \A j \in Frames :
            /\ Monotone(latest_eval.buy, EvalOf(j).buy)
            /\ Monotone(EvalOf(j).buy, latest_eval.buy)
            /\ Monotone(latest_eval.sell, EvalOf(j).sell)
            /\ Monotone(EvalOf(j).sell, latest_eval.sell)

\* C12 witness: the batch holds an input on which strictly more bullish
\* checks fire than on the one just evaluated, with a strictly higher
\* confidence
C12_Witness ==
    /\ Evaluated
    /\ latest_eval.buy.conditions # <<>>
    /\ \E j \in Frames :
          LET b == EvalOf(j).buy
          IN  /\ Range(latest_eval.buy.conditions) \subseteq Range(b.conditions)
              /\ Range(latest_eval.buy.conditions) # Range(b.conditions)
              /\ latest_eval.buy.confidence < b.confidence

\* a series of at least two equal prices
IsConstant(s) ==
    /\ Len(s) >= 2
    /\ s[1].k = "num"
    /\ \A i \in 1..Len(s) : s[i] = s[1]

\* C13: on a constant price series of two or more points the volatility is
\* 0, and the trend is 'sideways' with strength 0.
C13_ConstantSeries ==
    /\ vpc = "done" /\ IsConstant(vPrices) => volatility = Int2Val(0)
    /\ tpc = "done" /\ IsConstant(tPrices) =>
          trend.direction = "sideways" /\ trend.strength = Int2Val(0)

StrictlyIncreasing(s) ==
    /\ \A i \in 1..Len(s) : s[i].k = "num"
    /\ \A i \in 1..(Len(s) - 1) : s[i].n < s[i + 1].n

EqualSteps(s) ==
    \A i \in 1..(Len(s) - 1) : s[i + 1].n - s[i].n = s[2].n - s[1].n

LongRising == tpc = "done" /\ Len(tPrices) >= 20 /\ StrictlyIncreasing(tPrices)

\* C14 as stated: every strictly increasing series of 20 or more prices has
\* direction 'up' and strength above 90.
C14_IncreasingIsStrongUp ==
    LongRising =>
        trend.direction = "up" /\ Gt(trend.strength, Int2Val(90))

\* C14 as amended: a strictly increasing series of 20 or more prices has
\* direction 'up' exactly when its last price is more than 1 percent above
\* its first and 'sideways' otherwise, and strength above 90 (it is 100)
\* when its steps are equal.
C14_IncreasingAmended ==
    LongRising =>
        LET first == tPrices[1].n
            last == tPrices[Len(tPrices)].n
        IN  /\ trend.direction = "up" <=> (last - first) * 100 > first
            /\ trend.direction \in {"up", "sideways"}
            /\ EqualSteps(tPrices) =>
                  /\ Gt(trend.strength, Int2Val(90))
                  /\ trend.strength = Int2Val(100)

\* C14 witness: a long series in equal steps that gains more than 1 percent
C14_Witness ==
    /\ LongRising
    /\ EqualSteps(tPrices)
    /\ trend.direction = "up"
    /\ trend.strength = Int2Val(100)

\* the last five bars of the frame all close above their open
LastFiveBullish(df) ==
    /\ df.n >= 5
    /\ \A i \in 1..df.n : i + 5 > df.n => Gt(df.Close[i], df.Open[i])

StrongUp(df) ==
    /\ ChangeClass(df.Close) = "up"
    /\ Gt(trend_strength(df.Close), Int2Val(50))

\* C15: a window of 10 points (or more) whose last five bars are all
\* bullish and whose closes trend up with strength above 50 is labelled
\* 'bullish', whatever its volumes are and whether or not it has a Volume
\* column.
C15_BullishWindow ==
    spc = "done" /\ WellFormed(sdf) /\ sdf.n >= 10
        /\ LastFiveBullish(sdf) /\ StrongUp(sdf)
        => sentiment = "bullish"

\* C15 witness: such a window of exactly 10 points with falling volume
C15_Witness ==
    /\ spc = "done"
    /\ WellFormed(sdf) /\ sdf.n = 10
    /\ LastFiveBullish(sdf) /\ StrongUp(sdf)
    /\ "Volume" \in sdf.cols /\ ChangeClass(sdf.Volume) = "down"
    /\ sentiment = "bullish"

\* the closes of a frame fall from every bar to the next
StrictlyDecreasingCloses(f) ==
    /\ f.kind = "rows"
    /\ "close" \in f.cols
    /\ \A i \in 1..(f.n - 1) : Close(f)[i] > Close(f)[i + 1]

\* C16: on a series of at least rsi_period + 1 candles with strictly
\* decreasing closes, the oscillator of the latest bar is defined and is 0,
\* below the oversold threshold, and 'rsi_oversold' is among the bullish
\* conditions of that bar.
C16_FallingSeriesIsOversold ==
    Evaluated /\ StrictlyDecreasingCloses(FrameOf(latest_eval.symbol))
        /\ latest_eval.n >= parameters.rsi_period + 1
        => /\ "rsi" \in DOMAIN latest_eval.latest
           /\ latest_eval.latest["rsi"] = Int2Val(0)
           /\ Lt(latest_eval.latest["rsi"], Int2Val(parameters.rsi_oversold))
           /\ "rsi_oversold" \in Range(latest_eval.buy.conditions)

\* C16 witness: a falling series of 20 candles evaluated, 'rsi_oversold'
\* fired
C16_Witness ==
    /\ Evaluated
    /\ StrictlyDecreasingCloses(FrameOf(latest_eval.symbol))
    /\ latest_eval.n = 20
    /\ "rsi_oversold" \in Range(latest_eval.buy.conditions)

\* the conditions reported for the latest bar
BuyFired == Range(latest_eval.buy.conditions)
SellFired == Range(latest_eval.sell.conditions)
Col(c) == Get(latest_eval.latest, c)
Band(c) == /\ Has(latest_eval.latest, {"close", c})
           /\ Col("close").k = "num"

\* C17: 'high_volume_down' fires iff volume_ratio > volume_threshold and
\* close < open on the latest bar; 'high_volume' fires iff volume_ratio >
\* volume_threshold, whatever the direction of the bar; each other bearish
\* check is the bullish check with its comparisons inverted.
C17_BearishChecksMirror ==
    Evaluated =>
        LET high == Gt(Col("volume_ratio"), parameters.volume_threshold)
        IN  /\ "high_volume" \in BuyFired <=> high
            /\ "high_volume_down" \in SellFired
                  <=> high /\ Lt(Col("close"), Col("open"))
            /\ "rsi_oversold" \in BuyFired
                  <=> Lt(Col("rsi"), Int2Val(parameters.rsi_oversold))
            /\ "rsi_overbought" \in SellFired
                  <=> Gt(Col("rsi"), Int2Val(parameters.rsi_overbought))
            /\ "macd_bullish" \in BuyFired
                  <=> /\ Gt(Col("macd"), Col("macd_signal"))
                      /\ Gt(Col("macd_hist"), Int2Val(0))
            /\ "macd_bearish" \in SellFired
                  <=> /\ Lt(Col("macd"), Col("macd_signal"))
                      /\ Lt(Col("macd_hist"), Int2Val(0))
            /\ "bb_oversold" \in BuyFired
                  <=> /\ Band("bb_lower")
                      /\ BelowLowerBand(Col("close").n, Col("bb_lower"))
            /\ "bb_overbought" \in SellFired
                  <=> /\ Band("bb_upper")
                      /\ AboveUpperBand(Col("close").n, Col("bb_upper"))
            /\ "golden_cross" \in BuyFired
                  <=> /\ Gt(Col("sma_20"), Col("sma_50"))
                      /\ Gt(Col("sma_50"), Col("sma_200"))
            /\ "death_cross" \in SellFired
                  <=> /\ Lt(Col("sma_20"), Col("sma_50"))
                      /\ Lt(Col("sma_50"), Col("sma_200"))

\* C17 witness: a volume spike on an up bar: the bullish volume check fired
\* and the bearish one did not
C17_Witness ==
    /\ Evaluated
    /\ Gt(Col("volume_ratio"), parameters.volume_threshold)
    /\ Gt(Col("close"), Col("open"))
    /\ "high_volume" \in BuyFired
    /\ "high_volume_down" \notin SellFired

\* C18: the strength calculate_trend returns is a number within [0, 100]
\* on every series, and is 0 whenever fewer than two of its points are not
\* NaN.
C18_StrengthInRange ==
    tpc = "done" =>
        /\ trend.strength.k = "num"
        /\ ~Lt(trend.strength, Int2Val(0))
        /\ ~Gt(trend.strength, Int2Val(100))
        /\ Cardinality({i \in 1..Len(tPrices) : tPrices[i].k = "num"}) < 2
              => trend.strength = Int2Val(0)

\* C18 witness: three points of which one is a price, strength 0
C18_Witness ==
    /\ tpc = "done"
    /\ Len(tPrices) = 3
    /\ Cardinality({i \in 1..Len(tPrices) : tPrices[i].k = "num"}) = 1
    /\ trend.strength = Int2Val(0)

\* the period-over-period returns of a series that are defined: those
\* between two consecutive prices that are both numbers
RECURSIVE DefinedReturns(_)
DefinedReturns(s) ==
    IF Len(s) < 2 THEN <<>>
    ELSE LET n == Len(s)
             before == DefinedReturns(SubSeq(s, 1, n - 1))
         IN  IF s[n].k = "num" /\ s[n - 1].k = "num"
             THEN Append(before,
                         Num(s[n].n * s[n - 1].d - s[n - 1].n * s[n].d,
                             s[n].d * s[n - 1].n))
             ELSE before

\* the squared volatility of a list of returns
SquaredVolatilityOf(returns) ==
    IF Len(returns) = 0 THEN Int2Val(0)
    ELSE VMul(sample_variance(returns), Int2Val(10000))

\* C19: the volatility is the standard deviation (times 100) of the
\* defined returns only; a return next to a NaN price is left out and never
\* enters as a zero return.
C19_UndefinedReturnsExcluded ==
    vpc = "done" /\ Len(vPrices) >= 2 =>
        volatility = SquaredVolatilityOf(DefinedReturns(vPrices))

\* the rolling-window columns of the latest row, with their window sizes
RollingWindows(params) ==
    [bb_upper |-> params.bb_period, bb_middle |-> params.bb_period,
     bb_lower |-> params.bb_period, volume_sma |-> 20, volume_ratio |-> 20,
     sma_20 |-> 20, sma_50 |-> 50, sma_200 |-> 200]

WarmUpUndefined(row, n, params) ==
    \A c \in DOMAIN RollingWindows(params) \cap DOMAIN row :
        n < RollingWindows(params)[c] =>
            IF c \in {"bb_upper", "bb_lower"} THEN row[c] = NoBand
            ELSE isna(row[c])

\* C20: a rolling-window indicator is undefined at every index that has
\* fewer observations behind it than its window; for the oscillator with
\* period p, whose observations are the price deltas, that is every index
\* 0..p-1 of the code (1..p here).
C20_WarmUpIsUndefined ==
    /\ rpc = "done" =>
          /\ \A i \in 1..Len(rsiA) : i <= rPeriod => isna(rsiA[i])
          /\ \A i \in 1..Len(rsiT) : i <= rPeriod => isna(rsiT[i])
    /\ Evaluated =>
          WarmUpUndefined(latest_eval.latest, latest_eval.n, parameters)

----------------------------------------------------------------------------
(* DataFetcher: cache expiry and the pairing of results with assets        *)

FetchAssetSet == {FetchAssets[k] : k \in 1..Len(FetchAssets)}

InTasks(a) == \E k \in 1..Len(fetch_log.tasks) : fetch_log.tasks[k] = a

\* C21: the last fetch_all call took an asset from the cache only if its
\* entry was less than cache_ttl seconds old; every entry of age >=
\* cache_ttl, ages beyond one day included, was left out of the cache hits
\* and fetched again.
C21_ExpiredEntryIsRefetched ==
    fetch_log.calls > 0 =>
        \A a \in FetchAssetSet :
            /\ a \in fetch_log.from_cache => fetch_log.age[a] < cache_ttl
            /\ fetch_log.age[a] >= cache_ttl =>
                   a \notin fetch_log.from_cache /\ InTasks(a)

\* the same statement for ages within one day, where .seconds is the age
C21_WithinOneDay ==
    fetch_log.calls > 0 =>
        \A a \in FetchAssetSet :
            fetch_log.age[a] < SecondsPerDay =>
                /\ a \in fetch_log.from_cache => fetch_log.age[a] < cache_ttl
                /\ fetch_log.age[a] >= cache_ttl =>
                       a \notin fetch_log.from_cache /\ InTasks(a)

\* C22: after fetch_all, whatever is stored under an asset in the returned
\* map and in the cache is data of that asset, never the result of the
\* fetch of another asset.
C22_NoCrossAssetData ==
    \A a \in FetchAssetSet :
        /\ fetch_result[a] # NoEntry.data => fetch_result[a].asset = a
        /\ cache[a] # NoEntry => cache[a].data.asset = a

----------------------------------------------------------------------------
(* check_and_execute_trades: when it trades and what it records            *)

TradingAllowed(strategy) ==
    /\ strategy # NoStrategy
    /\ "allow_trading" \in DOMAIN strategy
    /\ strategy.allow_trading

\* the cycle has no client, no strategy that allows trading, or no signals
CycleBlocked ==
    \/ supabase # "client"
    \/ ~TradingAllowed(trade_strategy)
    \/ trade_signals = <<>>

\* C23: in a cycle where the Supabase client is absent, the current
\* strategy is missing or does not allow trading (the default strategy
\* among them), or the signal list is empty, check_and_execute_trades calls
\* execute_auto_trade for no request and sets the status of no request.
C23_BlockedCycleDoesNothing ==
    (cycles > 0 /\ CycleBlocked) =>
        /\ trade_log.called = {}
        /\ trade_log.placed = {}
        /\ \A id \in RequestIds : trade_log.set_status[id] = ""

\* a cycle with a client and a strategy that allows trading went through a
\* pending request of a real user with an empty signal list
C23_Witness ==
    /\ xpc = "done"
    /\ cycles > 0
    /\ supabase = "client"
    /\ TradingAllowed(trade_strategy)
    /\ trade_signals = <<>>
    /\ pending_requests # <<>>
    /\ \E k \in 1..Len(pending_requests) :
          requests[pending_requests[k]].user_id # 0

C25_ExecutedOnlyIfPlaced ==
    \A id \in RequestIds :
        trade_log.set_status[id] = "executed" => id \in trade_log.placed

----------------------------------------------------------------------------
(* StrategyManager: what check_for_updates leaves in self.strategies       *)

\* get_active_strategies(), as a set of rows
get_active_strategies == {strategies[k] : k \in 1..Len(strategies)}

ActiveInStore ==
    {[strategy_name |-> StrategyNames[r], updated_at |-> store[r].updated_at] :
        r \in ActiveRows}

\* C26: right after a check_for_updates call that met no store error,
\* get_active_strategies() is the set of strategies active in the store,
\* whatever was changed since the last load.
C26_CheckPicksUpEveryChange ==
    (strat_log.call = "check_for_updates" /\ strat_log.ok) =>
        get_active_strategies = ActiveInStore

\* what the code does guarantee: a call that reports an update and met no
\* store error has reloaded the active set
C26_ReportedUpdateIsLoaded ==
    (strat_log.call = "check_for_updates" /\ strat_log.ok /\ strat_log.result) =>
        get_active_strategies = ActiveInStore

----------------------------------------------------------------------------
(* the two calculate_rsi side by side                                      *)

SameAt(i) ==
    \/ isna(rsiA[i]) /\ isna(rsiT[i])
    \/ ~isna(rsiA[i]) /\ ~isna(rsiT[i]) /\ rsiA[i] = rsiT[i]

\* C27: on every price series of at least period + 1 points the two
\* calculate_rsi give series of the same length that are, index by index,
\* both undefined or both defined and equal, also where the trailing
\* average loss is zero.
C27_BothRsiAgree ==
    (rpc = "done" /\ Len(rPrices) >= rPeriod + 1) =>
        /\ Len(rsiA) = Len(rsiT)
        /\ \A i \in 1..Len(rsiA) : SameAt(i)

\* the two agree at every index whose trailing average loss is not zero
C27_AgreeAwayFromZeroLoss ==
    (rpc = "done" /\ Len(rPrices) >= rPeriod + 1) =>
        /\ Len(rsiA) = Len(rsiT)
        /\ \A i \in 1..Len(rsiA) :
              avg_loss(rPrices, rPeriod)[i] # Int2Val(0) => SameAt(i)

----------------------------------------------------------------------------
(* series too short for the 200-bar average                                *)

CrossChecks == {"golden_cross", "death_cross"}

\* C28: on a series shorter than 200 points neither 'golden_cross' nor
\* 'death_cross' fires, and every signal generate_signals produces from it
\* has confidence at most 70.
C28_ShortSeriesNeverCross ==
    /\ (Evaluated /\ latest_eval.n < LongestWindow) =>
          /\ BuyFired \cap CrossChecks = {}
          /\ SellFired \cap CrossChecks = {}
          /\ latest_eval.buy.confidence <= 70
          /\ latest_eval.sell.confidence <= 70
    /\ \A k \in 1..Len(signals) :
          FrameOf(signals[k].symbol).n < LongestWindow =>
              /\ signals[k].confidence <= 70
              /\ Range(signals[k].conditions_met) \cap CrossChecks = {}

\* a series of 100 candles whose 20-bar average lies above its 50-bar
\* average (the first half of 'golden_cross') gave a buy signal
C28_Witness ==
    /\ Evaluated
    /\ latest_eval.n = FetchLimit
    /\ Gt(Col("sma_20"), Col("sma_50"))
    /\ Undefined(Col("sma_200"))
    /\ \E k \in 1..Len(signals) :
          /\ signals[k].symbol = latest_eval.symbol
          /\ signals[k].action = "buy"

----------------------------------------------------------------------------
(* apply_algorithm: one decision per asset                                 *)

\* the signals of the cycle for the i-th asset, by direction
SignalsFor(i, direction) ==
    {k \in 1..Len(core_signals) :
        /\ core_signals[k].asset = StripSuffix(CoreAssets[i])
        /\ core_signals[k].direction = direction}

\* the latest oscillator value of the i-th asset under the strategy
Oscillator(i) == CoreRsi(core_data[i], current_strategy).value

\* at least 20 points, a 'Close' column and a defined latest value
Decidable(i) ==
    /\ core_data[i].kind = "rows"
    /\ core_data[i].n >= 20
    /\ "Close" \in core_data[i].cols
    /\ ~isna(Oscillator(i))

Oversold(i) == Lt(Oscillator(i), Int2Val(current_strategy.rsi_oversold))
Overbought(i) == Gt(Oscillator(i), Int2Val(current_strategy.rsi_overbought))

\* C29: a finished apply_algorithm call has emitted at most one signal per
\* asset: a CALL iff the asset has at least 20 points, a 'Close' column, a
\* defined latest oscillator value and that value is below rsi_oversold; a
\* PUT iff the same holds, the value is not below rsi_oversold and is above
\* rsi_overbought; and nothing at all without a strategy or market data.
C29_OneDecisionPerAsset ==
    cpc = "done" =>
        IF current_strategy = NoStrategy \/ core_data = <<>>
        THEN core_signals = <<>>
        ELSE /\ \A i \in 1..Len(core_data) :
                  /\ Cardinality(SignalsFor(i, "CALL")) + Cardinality(SignalsFor(i, "PUT")) <= 1
                  /\ SignalsFor(i, "CALL") # {} <=> Decidable(i) /\ Oversold(i)
                  /\ SignalsFor(i, "PUT") # {} <=>
                        Decidable(i) /\ ~Oversold(i) /\ Overbought(i)
             /\ Len(core_signals) <= Len(core_data)

\* one call gave a CALL for one asset and nothing for the other, whose
\* latest value lies between the thresholds
C29_Witness ==
    /\ cpc = "done"
    /\ current_strategy # NoStrategy
    /\ Len(core_data) = 2
    /\ SignalsFor(1, "CALL") # {}
    /\ Decidable(2) /\ ~Oversold(2) /\ ~Overbought(2)
    /\ Len(core_signals) = 1

\* one call gave a PUT and a CALL
C29_BothDirections ==
    /\ cpc = "done"
    /\ SignalsFor(1, "PUT") # {}
    /\ SignalsFor(2, "CALL") # {}

----------------------------------------------------------------------------
(* calculate_volatility on every input                                     *)

FiniteNonNegative(v) == v.k = "num" /\ v.n >= 0

\* C30: calculate_volatility returns a defined, finite, non-negative number
\* for every input: 0 for fewer than 2 points, a defined value for every
\* series of 2 or more points, the single-return case of exactly 2 points
\* included.
C30_VolatilityAlwaysDefined ==
    vpc = "done" =>
        /\ FiniteNonNegative(volatility)
        /\ Len(vPrices) < 2 => volatility = Int2Val(0)

\* with two or more returns left after dropna, and with none, the result is
\* a finite non-negative number
C30_DefinedExceptSingleReturn ==
    (vpc = "done" /\ Len(vPrices) >= 2
        /\ Len(dropna(pct_change(vPrices, fill_method))) # 1)
            => FiniteNonNegative(volatility)

====
